---- MODULE Spec2Model ----
(***************************************************************************)
(* CAD-MCP: the drawing backend (src/src/cad_controller.py), the tool      *)
(* dispatcher and the free-text dispatcher (src/src/server.py) and the     *)
(* command parser (src/src/nlp_processor.py), as one state machine.        *)
(*                                                                         *)
(* The state is the module-level CADController of server.py (its app and   *)
(* doc handles), the drawing the doc handle refers to (layer table and     *)
(* model space) and the files written by save_drawing.  Every call of the  *)
(* underlying drawing engine (ezdxf or the COM application) may raise: the *)
(* input "fault" of an operation names the engine call that does.          *)
(***************************************************************************)
EXTENDS Integers, Sequences, FiniteSets, TLC

VARIABLES
    use_ezdxf,   \* CADController.use_ezdxf: TRUE ezdxf backend, FALSE win32com
    app,         \* CADController.app: "None", "app", or "deleted" (del self.app)
    doc,         \* CADController.doc: "None" or "doc"
    layers,      \* layer table of the document: sequence of [name, color]
    entities,    \* model space of the document: sequence of entity records
    files,       \* paths written by doc.saveas / doc.SaveAs
    dirs,        \* directories created by os.makedirs
    session,     \* the session as its caller saw it: "Unconnected", "Ready"
                 \* (start_cad returned True) or "Closed" (close() since)
    last         \* the last operation: who called, with what, what came back

vars == <<use_ezdxf, app, doc, layers, entities, files, dirs, session, last>>

-----------------------------------------------------------------------------
(* Bounds of the model *)

\* draw operations are offered while the model space holds fewer entities
MaxEntities == 1

-----------------------------------------------------------------------------
(* Python values: every value carries its type as its first component *)

None == <<"None">>
Str(s) == <<"str", s>>
\* a number, held in tenths: Num(25) is 2.5 and Num(50) is 5
Num(n) == <<"num", n>>
\* an integer that is not a measure: a color index, a lineweight
PyInt(i) == <<"int", i>>
Bool(b) == <<"bool", b>>
Tup(p) == <<"tuple", p>>
List(l) == <<"list", l>>
\* a reference to the i-th entity of the model space
Obj(i) == <<"object", i>>
\* an exception leaving a call
Exc(e) == <<"raise", e>>

IsNone(v) == v[1] = "None"
IsExc(v) == v[1] = "raise"

\* Python truthiness (if layer:, if not points, if textheight:)
Truthy(v) ==
    CASE v[1] = "None" -> FALSE
      [] v[1] = "str" -> Len(v[2]) > 0
      [] v[1] = "num" -> v[2] # 0
      [] v[1] = "int" -> v[2] # 0
      [] v[1] = "bool" -> v[2]
      [] v[1] = "tuple" -> Len(v[2]) > 0
      [] v[1] = "list" -> Len(v[2]) > 0
      [] OTHER -> TRUE

Range(s) == {s[i] : i \in DOMAIN s}

\* The controller, its document and the file system as one value
World == [app |-> app, doc |-> doc, layers |-> layers, entities |-> entities,
          files |-> files, dirs |-> dirs, session |-> session]

-----------------------------------------------------------------------------
(* CADController.__init__ *)

valid_lineweights ==
    {0, 5, 9, 13, 15, 18, 20, 25, 30, 35, 40, 50, 53, 60, 70, 80, 90, 100,
     106, 120, 140, 158, 200, 211}

\* config["output"].get("directory", "./output"), as path components
output_dir == "./output"
\* config["output"].get("default_filename", "cad_drawing.dwg")
default_filename == "cad_drawing.dwg"

-----------------------------------------------------------------------------
(* Python's binding of a call's arguments to a method's parameters *)

Params(op) ==
    CASE op = "start_cad" -> <<>>
      [] op = "is_running" -> <<>>
      [] op = "refresh_view" -> <<>>
      [] op = "close" -> <<>>
      [] op = "save_drawing" -> <<"file_path">>
      [] op = "create_layer" -> <<"layer_name", "color">>
      [] op = "draw_line" ->
            <<"start_point", "end_point", "layer", "color", "lineweight">>
      [] op = "draw_circle" ->
            <<"center", "radius", "layer", "color", "lineweight">>
      [] op = "draw_arc" ->
            <<"center", "radius", "start_angle", "end_angle",
              "layer", "color", "lineweight">>
      [] op = "draw_rectangle" ->
            <<"corner1", "corner2", "layer", "color", "lineweight">>
      [] op = "draw_polyline" ->
            <<"points", "closed", "layer", "color", "lineweight">>
      [] op = "draw_text" ->
            <<"position", "text", "height", "rotation", "layer", "color">>
      [] op = "draw_hatch" ->
            <<"points", "pattern_name", "scale", "layer", "color">>
      [] op = "add_dimension" ->
            <<"start_point", "end_point", "text_position", "textheight",
              "layer", "color">>
      [] op = "validate_lineweight" -> <<"lineweight">>

Defaults(op) ==
    CASE op = "save_drawing" -> [file_path |-> None]
      [] op = "create_layer" -> [color |-> PyInt(7)]
      [] op \in {"draw_line", "draw_circle", "draw_arc", "draw_rectangle"} ->
            [layer |-> None, color |-> None, lineweight |-> None]
      [] op = "draw_polyline" ->
            [closed |-> Bool(FALSE), layer |-> None, color |-> None,
             lineweight |-> None]
      [] op = "draw_text" ->
            [height |-> Num(25), rotation |-> Num(0), layer |-> None,
             color |-> None]
      [] op = "draw_hatch" ->
            [pattern_name |-> Str("SOLID"), scale |-> Num(10), layer |-> None,
             color |-> None]
      [] op = "add_dimension" ->
            [text_position |-> None, textheight |-> Num(50), layer |-> None,
             color |-> None]
      [] OTHER -> <<>>

ParamIndex(op, n) == CHOOSE i \in DOMAIN Params(op) : Params(op)[i] = n

\* TypeError: too many positional arguments, an unexpected keyword, a
\* parameter given twice, or a required parameter not given
BindError(op, pos, kw) ==
    \/ Len(pos) > Len(Params(op))
    \/ \E k \in DOMAIN kw :
          \/ k \notin Range(Params(op))
          \/ ParamIndex(op, k) <= Len(pos)
    \/ \E i \in DOMAIN Params(op) :
          /\ i > Len(pos)
          /\ Params(op)[i] \notin DOMAIN kw
          /\ Params(op)[i] \notin DOMAIN Defaults(op)

Bind(op, pos, kw) ==
    [n \in Range(Params(op)) |->
        IF ParamIndex(op, n) <= Len(pos) THEN pos[ParamIndex(op, n)]
        ELSE IF n \in DOMAIN kw THEN kw[n]
        ELSE Defaults(op)[n]]

-----------------------------------------------------------------------------
(* CADController: helpers *)

\* self.app is not None and self.doc is not None; reading self.app after
\* "del self.app" is an AttributeError
is_running(w) ==
    IF w.app = "deleted" THEN Exc("AttributeError")
    ELSE Bool(w.app # "None" /\ w.doc # "None")

\* _normalize_point without the z it adds to a point of two coordinates
_normalize_point_keeps_2d(point) ==
    SubSeq(point, 1, IF Len(point) < 3 THEN Len(point) ELSE 3)

_normalize_point(point) ==
    IF Len(point) = 2 THEN <<point[1], point[2], 0>>
    ELSE SubSeq(point, 1, IF Len(point) < 3 THEN Len(point) ELSE 3)

\* lineweight in self.valid_lineweights: numbers are compared by value, so
\* 5.0 and False are found in the list as 5 and 0 are
InLineweights(v) ==
    CASE v[1] = "int" -> v[2] \in valid_lineweights
      [] v[1] = "num" -> v[2] % 10 = 0 /\ (v[2] \div 10) \in valid_lineweights
      [] v[1] = "bool" -> (IF v[2] THEN 1 ELSE 0) \in valid_lineweights
      [] OTHER -> FALSE

\* validate_lineweight without the check against the list
validate_lineweight_unchecked(lineweight) == lineweight

validate_lineweight(lineweight) ==
    IF IsNone(lineweight) \/ InLineweights(lineweight)
    THEN lineweight
    ELSE PyInt(0)

LayerNames(w) == {w.layers[i].name : i \in DOMAIN w.layers}

\* An entity of the model space
Entity(kind, geom, extra, closed, attribs) ==
    [kind |-> kind, geom |-> geom, extra |-> extra, closed |-> closed,
     layer |-> attribs.layer, color |-> attribs.color,
     lineweight |-> attribs.lineweight]

NoAttribs == [layer |-> None, color |-> None, lineweight |-> None]

AddEntity(w, e) == [w EXCEPT !.entities = Append(@, e)]

LastObj(w) == Obj(Len(w.entities))

-----------------------------------------------------------------------------
(* CADController: session *)

Ret(w, v) == [w |-> w, ret |-> v]

\* ezdxf.new('R2010') raises (o.new = FALSE) or gives a fresh document
_start_cad_ezdxf(w, o) ==
    IF ~o.new THEN Ret(w, Bool(FALSE))
    ELSE Ret([w EXCEPT !.doc = "doc", !.app = "app",
                       !.layers = <<>>, !.entities = <<>>], Bool(TRUE))

\* GetActiveObject (o.attach), else Dispatch and Visible (o.launch), then the
\* application's documents (o.docs): Documents.Add() gives a fresh document,
\* ActiveDocument the one the application already holds
_start_cad_win32com(w, o) ==
    IF ~o.attach /\ o.launch = "dispatch_raises" THEN Ret(w, Bool(FALSE))
    ELSE LET w1 == [w EXCEPT !.app = "app"] IN
         IF ~o.attach /\ o.launch = "visible_raises" THEN Ret(w1, Bool(FALSE))
         ELSE IF o.docs = "raises" THEN Ret(w1, Bool(FALSE))
         ELSE IF o.docs = "add"
              THEN Ret([w1 EXCEPT !.doc = "doc", !.layers = <<>>,
                                  !.entities = <<>>], Bool(TRUE))
              ELSE Ret([w1 EXCEPT !.doc = "doc"], Bool(TRUE))

\* the engine calls of _start_cad_win32com when it launches a fresh instance
\* before it looks for a running one
Win32StartCalls_launch_first(o) ==
    <<"Dispatch", "GetActiveObject">>
    \o (IF o.docs = "raises" THEN <<"Documents.Count">>
        ELSE IF o.docs = "add" THEN <<"Documents.Count", "Documents.Add">>
        ELSE <<"Documents.Count", "ActiveDocument">>)

\* the engine calls _start_cad_win32com makes, in their order, for the
\* outcomes o
Win32StartCalls(o) ==
    <<"GetActiveObject">>
    \o (IF o.attach THEN <<>>
        ELSE IF o.launch = "dispatch_raises" THEN <<"Dispatch">>
        ELSE <<"Dispatch", "Visible">>)
    \o (IF ~o.attach /\ o.launch # "ok" THEN <<>>
        ELSE IF o.docs = "raises" THEN <<"Documents.Count">>
        ELSE IF o.docs = "add" THEN <<"Documents.Count", "Documents.Add">>
        ELSE <<"Documents.Count", "ActiveDocument">>)

start_cad(w, ez, o) ==
    IF ez THEN _start_cad_ezdxf(w, o) ELSE _start_cad_win32com(w, o)

\* ezdxf: nothing.  win32com: "del self.app" removes the attribute when it is
\* truthy; reading it once removed raises inside the try and is swallowed
close(w, ez) ==
    IF ~ez /\ w.app = "app" THEN Ret([w EXCEPT !.app = "deleted"], None)
    ELSE Ret(w, None)

\* is_running() is called outside any try
refresh_view(w, ez) ==
    IF ez THEN Ret(w, None)
    ELSE IF IsExc(is_running(w)) THEN Ret(w, is_running(w))
    ELSE Ret(w, None)

-----------------------------------------------------------------------------
(* CADController: layers and files *)

\* create_layer adding the layer without looking the name up
create_layer_always_adds(w, ez, a, fault) ==
    IF IsExc(is_running(w)) THEN Ret(w, is_running(w))
    ELSE IF ~is_running(w)[2] THEN Ret(w, Bool(FALSE))
    ELSE IF fault = "layer" THEN Ret(w, Bool(FALSE))
    ELSE Ret([w EXCEPT !.layers =
                 Append(@, [name |-> a.layer_name,
                            color |-> IF ez THEN a.color ELSE None])],
             Bool(TRUE))

\* fault = "layer": the engine call that looks the table up (win32com) or
\* creates the layer (both) raises
create_layer(w, ez, a, fault) ==
    IF IsExc(is_running(w)) THEN Ret(w, is_running(w))
    ELSE IF ~is_running(w)[2] THEN Ret(w, Bool(FALSE))
    ELSE IF ez
    THEN IF a.layer_name \in LayerNames(w) THEN Ret(w, Bool(TRUE))
         ELSE IF fault = "layer" THEN Ret(w, Bool(FALSE))
         ELSE Ret([w EXCEPT !.layers =
                      Append(@, [name |-> a.layer_name, color |-> a.color])],
                  Bool(TRUE))
    ELSE IF fault = "layer" THEN Ret(w, Bool(FALSE))
         ELSE IF a.layer_name \in LayerNames(w) THEN Ret(w, Bool(TRUE))
         ELSE Ret([w EXCEPT !.layers =
                      Append(@, [name |-> a.layer_name, color |-> None])],
                  Bool(TRUE))

\* the index of the last "/" of path, 0 when it has none
LastSlash(path) ==
    IF \E i \in 1..Len(path) : SubSeq(path, i, i) = "/"
    THEN CHOOSE i \in 1..Len(path) :
            /\ SubSeq(path, i, i) = "/"
            /\ \A j \in (i + 1)..Len(path) : SubSeq(path, j, j) # "/"
    ELSE 0

\* os.path.dirname(file_path) or "."
Dirname(path) ==
    IF LastSlash(path) = 0 THEN "."
    ELSE IF LastSlash(path) = 1 THEN "/"
    ELSE SubSeq(path, 1, LastSlash(path) - 1)

\* SaveTarget of a save_drawing that writes to the default path whatever
\* path it is given
SaveTarget_default_only(file_path) ==
    [dir |-> output_dir, file |-> output_dir \o "/" \o default_filename]

\* what the call creates and writes: the directory and the file
SaveTarget(file_path) ==
    IF IsNone(file_path)
    THEN [dir |-> output_dir, file |-> output_dir \o "/" \o default_filename]
    ELSE [dir |-> Dirname(file_path[2]), file |-> file_path[2]]

\* fault = "mkdir": os.makedirs raises; fault = "io": saveas / SaveAs raises
save_drawing(w, ez, a, fault) ==
    IF IsExc(is_running(w)) THEN Ret(w, is_running(w))
    ELSE IF ~is_running(w)[2] THEN Ret(w, Bool(FALSE))
    ELSE IF fault = "mkdir" THEN Ret(w, Bool(FALSE))
    ELSE IF fault = "io"
    THEN Ret([w EXCEPT !.dirs = @ \cup {SaveTarget(a.file_path).dir}],
             Bool(FALSE))
    ELSE Ret([w EXCEPT !.dirs = @ \cup {SaveTarget(a.file_path).dir},
                       !.files = @ \cup {SaveTarget(a.file_path).file}],
             Bool(TRUE))

-----------------------------------------------------------------------------
(* CADController: attributes of a new entity *)

LayerArgs(layer) == [layer_name |-> layer, color |-> PyInt(7)]

\* ezdxf: the dxfattribs dictionary; the layer is created on the way
_get_dxfattribs(w, layer, color, lineweight, fault) ==
    [w |-> IF Truthy(layer)
           THEN create_layer(w, TRUE, LayerArgs(layer), fault).w
           ELSE w,
     attribs |-> [layer |-> IF Truthy(layer) THEN layer ELSE None,
                  color |-> color,
                  lineweight |-> validate_lineweight(lineweight)]]

WithAttribs(e, attribs) ==
    [e EXCEPT !.layer = attribs.layer, !.color = attribs.color,
              !.lineweight = attribs.lineweight]

\* win32com: obj.Layer, obj.Color, obj.LineWeight are assigned to the entity
\* n, in this order; fault = "attr": the first assignment raises
Win32SetAttribs(w, n, layer, color, lineweight, fault) ==
    IF fault = "attr"
       /\ (Truthy(layer) \/ ~IsNone(color) \/ ~IsNone(lineweight))
    THEN Ret(w, None)
    ELSE Ret([w EXCEPT !.entities[n] =
                 [@ EXCEPT !.layer = IF Truthy(layer) THEN layer ELSE @,
                           !.color = IF IsNone(color) THEN @ ELSE color,
                           !.lineweight =
                               IF IsNone(lineweight) THEN @
                               ELSE validate_lineweight(lineweight)]],
             Obj(n))

\* win32com: "if layer: self.create_layer(layer)", then the assignments to
\* the entity added last
Win32Assign(w, layer, color, lineweight, fault) ==
    Win32SetAttribs(IF Truthy(layer)
                    THEN create_layer(w, FALSE, LayerArgs(layer), fault).w
                    ELSE w,
                    Len(w.entities), layer, color, lineweight, fault)

\* ezdxf: the engine's add call with the dictionary d of _get_dxfattribs
EzdxfAdd(d, e, fault) ==
    IF fault = "add" THEN Ret(d.w, None)
    ELSE Ret(AddEntity(d.w, WithAttribs(e, d.attribs)),
             Obj(Len(d.w.entities) + 1))

\* DrawSimple with a handler that drops the document when the add call raises
DrawSimple_drops_doc(w, ez, e, layer, color, lineweight, fault) ==
    IF fault = "add" THEN Ret([w EXCEPT !.doc = "None"], None)
    ELSE IF ez
    THEN EzdxfAdd(_get_dxfattribs(w, layer, color, lineweight, fault), e, fault)
    ELSE Win32Assign(AddEntity(w, e), layer, color, lineweight, fault)

\* the common shape of a draw method past the session check: the engine's
\* add call (fault = "add": it raises) and the attributes
DrawSimple(w, ez, e, layer, color, lineweight, fault) ==
    IF ez
    THEN EzdxfAdd(_get_dxfattribs(w, layer, color, lineweight, fault), e, fault)
    ELSE IF fault = "add" THEN Ret(w, None)
         ELSE Win32Assign(AddEntity(w, e), layer, color, lineweight, fault)

-----------------------------------------------------------------------------
(* CADController: the draw methods.  Each takes the world, the backend, the
   bound arguments a and the engine fault of this call. *)

draw_line(w, ez, a, fault) ==
    IF IsExc(is_running(w)) THEN Ret(w, is_running(w))
    ELSE IF ~is_running(w)[2] THEN Ret(w, None)
    ELSE DrawSimple(w, ez,
            Entity("line",
                   <<_normalize_point(a.start_point[2]),
                     _normalize_point(a.end_point[2])>>,
                   <<>>, FALSE, NoAttribs),
            a.layer, a.color, a.lineweight, fault)

\* draw_circle handing the center on as it was given, not normalized
draw_circle_raw_center(w, ez, a, fault) ==
    IF IsExc(is_running(w)) THEN Ret(w, is_running(w))
    ELSE IF ~is_running(w)[2] THEN Ret(w, None)
    ELSE DrawSimple(w, ez,
            Entity("circle", <<a.center[2]>>, <<a.radius>>, FALSE, NoAttribs),
            a.layer, a.color, IF ez THEN a.lineweight ELSE None, fault)

\* the win32com branch assigns no LineWeight for a circle
draw_circle(w, ez, a, fault) ==
    IF IsExc(is_running(w)) THEN Ret(w, is_running(w))
    ELSE IF ~is_running(w)[2] THEN Ret(w, None)
    ELSE DrawSimple(w, ez,
            Entity("circle", <<_normalize_point(a.center[2])>>,
                   <<a.radius>>, FALSE, NoAttribs),
            a.layer, a.color, IF ez THEN a.lineweight ELSE None, fault)

\* math.radians(angle), as handed to AddArc
Radians(angle) == <<"radians", angle[2]>>

\* ezdxf takes degrees, AddArc takes radians
draw_arc(w, ez, a, fault) ==
    IF IsExc(is_running(w)) THEN Ret(w, is_running(w))
    ELSE IF ~is_running(w)[2] THEN Ret(w, None)
    ELSE DrawSimple(w, ez,
            Entity("arc", <<_normalize_point(a.center[2])>>,
                   IF ez THEN <<a.radius, a.start_angle, a.end_angle>>
                   ELSE <<a.radius, Radians(a.start_angle),
                          Radians(a.end_angle)>>,
                   FALSE, NoAttribs),
            a.layer, a.color, IF ez THEN a.lineweight ELSE None, fault)

NormalizeAll(points) == [i \in DOMAIN points |-> _normalize_point(points[i])]

\* ezdxf: pline.close() on the polyline r just added (fault = "attr": it
\* raises)
EzdxfClose(r, closed, fault) ==
    IF IsNone(r.ret) \/ ~Truthy(closed) THEN r
    ELSE IF fault = "attr" THEN Ret(r.w, None)
    ELSE Ret([r.w EXCEPT !.entities[r.ret[2]].closed = TRUE], r.ret)

\* win32com: pline.Closed on the polyline added last (fault = "attr": it
\* raises), then the attributes
Win32Polyline(w, closes, layer, color, fault) ==
    IF closes /\ fault = "attr" THEN Ret(w, None)
    ELSE Win32Assign([w EXCEPT !.entities[Len(w.entities)].closed = closes],
                     layer, color, None, fault)

\* ezdxf: add_lwpolyline, then pline.close(); win32com: AddPolyline, then
\* pline.Closed (more than 2 points), then the attributes
draw_polyline(w, ez, a, fault) ==
    IF IsExc(is_running(w)) THEN Ret(w, is_running(w))
    ELSE IF ~is_running(w)[2] THEN Ret(w, None)
    ELSE IF ~Truthy(a.points) \/ Len(a.points[2]) < 2 THEN Ret(w, None)
    ELSE IF ez
    THEN EzdxfClose(
            EzdxfAdd(_get_dxfattribs(w, a.layer, a.color, a.lineweight, fault),
                     Entity("polyline", NormalizeAll(a.points[2]), <<>>, FALSE,
                            NoAttribs),
                     fault),
            a.closed, fault)
    ELSE IF fault = "add" THEN Ret(w, None)
    ELSE Win32Polyline(
            AddEntity(w, Entity("polyline", NormalizeAll(a.points[2]), <<>>,
                                FALSE, NoAttribs)),
            Truthy(a.closed) /\ Len(a.points[2]) > 2,
            a.layer, a.color, fault)

\* the corners listed corner1, corner2, then the two between them
Corners_crossed(corner1, corner2) ==
    << <<corner1[1], corner1[2], corner1[3]>>,
       <<corner2[1], corner2[2], corner1[3]>>,
       <<corner2[1], corner1[2], corner1[3]>>,
       <<corner1[1], corner2[2], corner1[3]>> >>

\* the four corners, from corner1 round, at corner1's z
Corners(corner1, corner2) ==
    << <<corner1[1], corner1[2], corner1[3]>>,
       <<corner2[1], corner1[2], corner1[3]>>,
       <<corner2[1], corner2[2], corner1[3]>>,
       <<corner1[1], corner2[2], corner1[3]>> >>

draw_rectangle(w, ez, a, fault) ==
    IF IsExc(is_running(w)) THEN Ret(w, is_running(w))
    ELSE IF ~is_running(w)[2] THEN Ret(w, None)
    ELSE draw_polyline(w, ez,
            [points |-> List(Corners(_normalize_point(a.corner1[2]),
                                     _normalize_point(a.corner2[2]))),
             closed |-> Bool(TRUE), layer |-> a.layer, color |-> a.color,
             lineweight |-> a.lineweight],
            fault)

\* ezdxf: text_obj.set_placement on the text r just added (fault = "attr":
\* it raises)
EzdxfPlace(r, position, fault) ==
    IF IsNone(r.ret) THEN r
    ELSE IF fault = "attr" THEN Ret(r.w, None)
    ELSE Ret([r.w EXCEPT !.entities[r.ret[2]].geom = <<position>>], r.ret)

\* win32com: math.radians(rotation) when rotation != 0 (a TypeError unless
\* rotation is a number; fault = "attr": the assignment raises), then the
\* attributes of the text added last
Win32Text(w, rotation, layer, color, fault) ==
    IF rotation # Num(0) /\ (rotation[1] # "num" \/ fault = "attr")
    THEN Ret(w, None)
    ELSE Win32Assign([w EXCEPT !.entities[Len(w.entities)].extra[3] =
                         IF rotation # Num(0) THEN Radians(rotation) ELSE @],
                     layer, color, None, fault)

\* ezdxf: add_text with height and rotation, then set_placement.
\* win32com: AddText, then Rotation, then the attributes
draw_text(w, ez, a, fault) ==
    IF IsExc(is_running(w)) THEN Ret(w, is_running(w))
    ELSE IF ~is_running(w)[2] THEN Ret(w, None)
    ELSE IF ez
    THEN EzdxfPlace(
            EzdxfAdd(_get_dxfattribs(w, a.layer, a.color, None, fault),
                     Entity("text", <<>>, <<a.text, a.height, a.rotation>>,
                            FALSE, NoAttribs),
                     fault),
            _normalize_point(a.position[2]), fault)
    ELSE IF fault = "add" THEN Ret(w, None)
    ELSE Win32Text(
            AddEntity(w, Entity("text", <<_normalize_point(a.position[2])>>,
                                <<a.text, a.height, Num(0)>>, FALSE,
                                NoAttribs)),
            a.rotation, a.layer, a.color, fault)

\* self._normalize_point(p)[:2]
To2D(points) ==
    [i \in DOMAIN points |-> SubSeq(_normalize_point(points[i]), 1, 2)]

\* ezdxf: the boundary of the hatch r just added: add_lwpolyline and
\* pline.close() (fault = "boundary"), hatch.append_polyline_path
\* (fault = "attr")
EzdxfBoundary(r, points, fault) ==
    IF IsNone(r.ret) THEN r
    ELSE IF fault = "boundary" THEN Ret(r.w, None)
    ELSE IF fault = "attr"
    THEN Ret(AddEntity(r.w, Entity("polyline", points, <<>>, TRUE, NoAttribs)),
             None)
    ELSE Ret([AddEntity(r.w, Entity("polyline", points, <<>>, TRUE, NoAttribs))
                 EXCEPT !.entities[r.ret[2]].geom = <<Obj(r.ret[2] + 1)>>],
             r.ret)

\* win32com: past the boundary pline: AddHatch (fault = "add"),
\* AppendOuterLoop (fault = "attr"), PatternScale, Evaluate, the attributes
Win32Hatch(pline, a, fault) ==
    IF ~Truthy(pline.ret) THEN Ret(pline.w, None)
    ELSE IF fault = "add" THEN Ret(pline.w, None)
    ELSE IF fault = "attr"
    THEN Ret(AddEntity(pline.w,
                Entity("hatch", <<>>, <<a.pattern_name, None, Bool(FALSE)>>,
                       FALSE, NoAttribs)),
             None)
    ELSE Win32Assign(
            AddEntity(pline.w,
                Entity("hatch", <<pline.ret>>,
                       <<a.pattern_name, a.scale, Bool(TRUE)>>, FALSE,
                       NoAttribs)),
            a.layer, a.color, None,
            IF fault = "layer" THEN "layer" ELSE "none")

\* A hatch entity: geom holds the reference to its boundary, extra the
\* pattern, the scale and whether Evaluate() ran.  win32com draws the
\* boundary by draw_polyline (fault = "boundary": its AddPolyline raises)
draw_hatch(w, ez, a, fault) ==
    IF IsExc(is_running(w)) THEN Ret(w, is_running(w))
    ELSE IF ~is_running(w)[2] \/ ~Truthy(a.points) \/ Len(a.points[2]) < 3
    THEN Ret(w, None)
    ELSE IF ez
    THEN EzdxfBoundary(
            EzdxfAdd(_get_dxfattribs(w, a.layer, a.color, None, fault),
                     Entity("hatch", <<>>,
                            <<a.pattern_name, a.scale, Bool(FALSE)>>, FALSE,
                            NoAttribs),
                     fault),
            To2D(a.points[2]), fault)
    ELSE Win32Hatch(
            draw_polyline(w, FALSE,
                [points |-> List(To2D(a.points[2])), closed |-> Bool(TRUE),
                 layer |-> a.layer, color |-> None, lineweight |-> None],
                IF fault = "boundary" THEN "add"
                ELSE IF fault = "layer" THEN "layer"
                ELSE "none"),
            a, fault)

\* text_position None: the midpoint, 5 above (numbers are in tenths)
TextPosition(start_point, end_point, text_position) ==
    IF IsNone(text_position)
    THEN <<(start_point[1] + end_point[1]) \div 2,
           (start_point[2] + end_point[2]) \div 2 + 50, 0>>
    ELSE _normalize_point(text_position[2])

\* win32com: AddDimAligned, then TextHeight when truthy (fault = "attr": the
\* assignment raises), then the attributes
Win32Dimension(w, textheight, layer, color, fault) ==
    IF Truthy(textheight) /\ fault = "attr" THEN Ret(w, None)
    ELSE Win32Assign([w EXCEPT !.entities[Len(w.entities)].extra =
                         <<IF Truthy(textheight) THEN textheight ELSE None>>],
                     layer, color, None, fault)

DimensionGeom(a) ==
    <<_normalize_point(a.start_point[2]), _normalize_point(a.end_point[2]),
      TextPosition(_normalize_point(a.start_point[2]),
                   _normalize_point(a.end_point[2]), a.text_position)>>

add_dimension(w, ez, a, fault) ==
    IF IsExc(is_running(w)) THEN Ret(w, is_running(w))
    ELSE IF ~is_running(w)[2] THEN Ret(w, None)
    ELSE IF ez
    THEN EzdxfAdd(_get_dxfattribs(w, a.layer, a.color, None, fault),
                  Entity("dimension", DimensionGeom(a), <<a.textheight>>,
                         FALSE, NoAttribs),
                  fault)
    ELSE IF fault = "add" THEN Ret(w, None)
    ELSE Win32Dimension(
            AddEntity(w, Entity("dimension", DimensionGeom(a), <<None>>,
                                FALSE, NoAttribs)),
            a.textheight, a.layer, a.color, fault)

\* a method called with the positional and keyword arguments of c, as Python
\* calls it: r is what the body gives once the arguments are bound
Method(w, c, r) ==
    IF BindError(c.op, c.pos, c.kw) THEN Ret(w, Exc("TypeError")) ELSE r

Args(c) == Bind(c.op, c.pos, c.kw)

\* the call c and what it returned, next to its outcome r
Logged(c, r) ==
    [w |-> r.w, ret |-> r.ret, calls |-> <<[call |-> c, ret |-> r.ret]>>]

-----------------------------------------------------------------------------
(* NLPProcessor: text.  A command is a string; Ch(s, i) is its i-th
   character, "" past its end.  Numbers are read in tenths, so "2.5" is 25;
   digits past the first decimal are dropped. *)

Ch(s, i) == IF i \in 1..Len(s) THEN SubSeq(s, i, i) ELSE ""

LowerCh(c) ==
    CASE c = "A" -> "a" [] c = "B" -> "b" [] c = "C" -> "c" [] c = "D" -> "d"
      [] c = "E" -> "e" [] c = "F" -> "f" [] c = "G" -> "g" [] c = "H" -> "h"
      [] c = "I" -> "i" [] c = "J" -> "j" [] c = "K" -> "k" [] c = "L" -> "l"
      [] c = "M" -> "m" [] c = "N" -> "n" [] c = "O" -> "o" [] c = "P" -> "p"
      [] c = "Q" -> "q" [] c = "R" -> "r" [] c = "S" -> "s" [] c = "T" -> "t"
      [] c = "U" -> "u" [] c = "V" -> "v" [] c = "W" -> "w" [] c = "X" -> "x"
      [] c = "Y" -> "y" [] c = "Z" -> "z" [] OTHER -> c

RECURSIVE lower(_)
\* str.lower()
lower(s) ==
    IF Len(s) = 0 THEN ""
    ELSE LowerCh(Ch(s, 1)) \o lower(SubSeq(s, 2, Len(s)))

\* "sub in s"
Contains(s, sub) ==
    \E i \in 1..(Len(s) - Len(sub) + 1) : SubSeq(s, i, i + Len(sub) - 1) = sub

\* s holds sub from its i-th character on
StartsAt(s, i, sub) ==
    /\ i >= 1
    /\ i + Len(sub) - 1 <= Len(s)
    /\ SubSeq(s, i, i + Len(sub) - 1) = sub

\* the least member of a set of positions, 0 for the empty set
First(I) == IF I = {} THEN 0 ELSE CHOOSE i \in I : \A j \in I : i <= j

IsDigit(c) == c \in {"0", "1", "2", "3", "4", "5", "6", "7", "8", "9"}

DigitVal(c) ==
    CASE c = "0" -> 0 [] c = "1" -> 1 [] c = "2" -> 2 [] c = "3" -> 3
      [] c = "4" -> 4 [] c = "5" -> 5 [] c = "6" -> 6 [] c = "7" -> 7
      [] c = "8" -> 8 [] c = "9" -> 9

\* \s
IsSpace(c) == c = " "

\* " or '
IsQuote(c) == c \in {"\"", "'"}

RECURSIVE DigitsEnd(_, _)
\* \d* from i: the index of its last digit, i - 1 when there is none
DigitsEnd(s, i) ==
    IF IsDigit(Ch(s, i)) THEN DigitsEnd(s, i + 1) ELSE i - 1

RECURSIVE SkipSpaces(_, _)
\* \s* from i: the index of the first character past it
SkipSpaces(s, i) ==
    IF IsSpace(Ch(s, i)) THEN SkipSpaces(s, i + 1) ELSE i

\* \s+ from i: the index of the first character past it, 0 without a match
AfterSpaces(s, i) == IF IsSpace(Ch(s, i)) THEN SkipSpaces(s, i) ELSE 0

RECURSIVE RunEnd(_, _)
\* [^"']* from i: the index of its last character, i - 1 when it is empty
RunEnd(s, i) ==
    IF i <= Len(s) /\ ~IsQuote(Ch(s, i)) THEN RunEnd(s, i + 1) ELSE i - 1

\* \d+\.?\d* from j, its digits ending at k >= j: the index of its end
FractionEnd(s, k) ==
    IF Ch(s, k + 1) = "." THEN DigitsEnd(s, k + 2) ELSE k

\* -?\d+\.?\d* from i: the index of the end of the match, 0 without one
NumberEnd(s, i) ==
    IF ~IsDigit(Ch(s, IF Ch(s, i) = "-" THEN i + 1 ELSE i)) THEN 0
    ELSE FractionEnd(s, DigitsEnd(s, IF Ch(s, i) = "-" THEN i + 1 ELSE i))

RECURSIVE IntVal(_)
\* the value of a string of digits
IntVal(s) ==
    IF Len(s) = 0 THEN 0
    ELSE IntVal(SubSeq(s, 1, Len(s) - 1)) * 10 + DigitVal(Ch(s, Len(s)))

\* the index of the "." of an unsigned number, 0 when it has none
DotAt(s) == First({i \in 1..Len(s) : Ch(s, i) = "."})

\* float() of an unsigned number, in tenths
Unsigned(s) ==
    IF DotAt(s) = 0 THEN IntVal(s) * 10
    ELSE IntVal(SubSeq(s, 1, DotAt(s) - 1)) * 10
         + (IF DotAt(s) < Len(s) THEN DigitVal(Ch(s, DotAt(s) + 1)) ELSE 0)

\* float() of what -?\d+\.?\d* matched, in tenths
Float(s) ==
    IF Ch(s, 1) = "-" THEN 0 - Unsigned(SubSeq(s, 2, Len(s)))
    ELSE Unsigned(s)

RECURSIVE NumbersFrom(_, _)
\* re.findall(r'-?\d+\.?\d*', s) from i on, each match through float()
NumbersFrom(s, i) ==
    IF i > Len(s) THEN <<>>
    ELSE IF NumberEnd(s, i) = 0 THEN NumbersFrom(s, i + 1)
    ELSE <<Float(SubSeq(s, i, NumberEnd(s, i)))>>
         \o NumbersFrom(s, NumberEnd(s, i) + 1)

_extract_numbers(command) == NumbersFrom(command, 1)

NoPoint == [end |-> 0, x |-> 0, y |-> 0]

\* the second number of a point, from j2, and the optional ")"
PointSecond(s, j, e1, j2) ==
    IF NumberEnd(s, j2) = 0 THEN NoPoint
    ELSE [end |-> IF Ch(s, NumberEnd(s, j2) + 1) = ")"
                  THEN NumberEnd(s, j2) + 1 ELSE NumberEnd(s, j2),
          x |-> Float(SubSeq(s, j, e1)),
          y |-> Float(SubSeq(s, j2, NumberEnd(s, j2)))]

\* \s*,\s* at c, past the first number
PointComma(s, j, e1, c) ==
    IF Ch(s, c) # "," THEN NoPoint
    ELSE PointSecond(s, j, e1, SkipSpaces(s, c + 1))

\* the first number of a point, from j
PointFirst(s, j) ==
    IF NumberEnd(s, j) = 0 THEN NoPoint
    ELSE PointComma(s, j, NumberEnd(s, j), SkipSpaces(s, NumberEnd(s, j) + 1))

\* \(?(-?\d+\.?\d*)\s*,\s*(-?\d+\.?\d*)\)? from i; end = 0 without a match
PointAt(s, i) == PointFirst(s, IF Ch(s, i) = "(" THEN i + 1 ELSE i)

RECURSIVE PointsWith(_, _, _)
\* the points found from i on, given the match m tried at i
PointsWith(s, i, m) ==
    IF i > Len(s) THEN <<>>
    ELSE IF m.end = 0 THEN PointsWith(s, i + 1, PointAt(s, i + 1))
    ELSE <<Tup(<<m.x, m.y>>)>> \o PointsWith(s, m.end + 1, PointAt(s, m.end + 1))

\* re.findall(point_pattern, s) from i on, as (float(x), float(y))
PointsFrom(s, i) == PointsWith(s, i, PointAt(s, i))

_extract_points(command) == PointsFrom(command, 1)

-----------------------------------------------------------------------------
(* NLPProcessor: keywords and the parts of a command *)

color_keywords == {"red", "yellow", "green", "cyan", "blue", "magenta",
                   "white", "black", "gray", "grey"}

\* the shapes in the order the dictionary holds them
ShapeOrder == <<"line", "circle", "arc", "rectangle", "polyline", "text",
                "hatch", "dimension">>

shape_keywords ==
    [line |-> {"line", "lines"},
     circle |-> {"circle", "circles"},
     arc |-> {"arc", "arcs"},
     rectangle |-> {"rectangle", "rect", "box", "square"},
     polyline |-> {"polyline", "polygon", "path"},
     text |-> {"text", "label", "annotation"},
     hatch |-> {"hatch", "fill", "pattern"},
     dimension |-> {"dimension", "measure", "measurement"}]

action_keywords == [draw |-> {"draw", "create", "add", "make"},
                    save |-> {"save", "export", "write"}]

\* _detect_command_type looking for the shapes before the save keywords
_detect_command_type_shapes_first(command) ==
    IF \E i \in DOMAIN ShapeOrder :
          \E k \in shape_keywords[ShapeOrder[i]] : Contains(command, k)
    THEN ShapeOrder[First({i \in DOMAIN ShapeOrder :
               \E k \in shape_keywords[ShapeOrder[i]] : Contains(command, k)})]
    ELSE IF \E k \in action_keywords.save : Contains(command, k) THEN "save"
    ELSE "unknown"

\* the first shape, in dictionary order, one of whose keywords the command
\* holds; command is already lower case
_detect_command_type(command) ==
    IF \E k \in action_keywords.save : Contains(command, k) THEN "save"
    ELSE IF \E i \in DOMAIN ShapeOrder :
               \E k \in shape_keywords[ShapeOrder[i]] : Contains(command, k)
    THEN ShapeOrder[First({i \in DOMAIN ShapeOrder :
               \E k \in shape_keywords[ShapeOrder[i]] : Contains(command, k)})]
    ELSE "unknown"

\* _extract_color looking the names up in the command as it was typed
_extract_color_as_typed(command) ==
    IF \E c \in color_keywords : Contains(command, c)
    THEN {Str(c) : c \in {k \in color_keywords : Contains(command, k)}}
    ELSE {None}

\* the loop runs over a set of strings, whose order is not fixed: every
\* colour the command holds may be the one returned
_extract_color(command) ==
    IF \E c \in color_keywords : Contains(lower(command), c)
    THEN {Str(c) : c \in {k \in color_keywords : Contains(lower(command), k)}}
    ELSE {None}

\* \s+["']?([^"']+)["']? with the \s+ from f and the first character past it
\* at q: the group, "" without a match.  With no character for the group
\* past the spaces, the last of two or more spaces is given back to it
TailCapture(s, f, q) ==
    IF q = 0 THEN ""
    ELSE IF IsQuote(Ch(s, q)) /\ q + 1 <= Len(s) /\ ~IsQuote(Ch(s, q + 1))
    THEN SubSeq(s, q + 1, RunEnd(s, q + 1))
    ELSE IF q <= Len(s) /\ ~IsQuote(Ch(s, q)) THEN SubSeq(s, q, RunEnd(s, q))
    ELSE IF q - f >= 2 THEN " "
    ELSE ""

\* (?:on|in)\s+layer at i of the lower-case command ls: the index of the
\* first character past "layer", 0 without a match
LayerAt(ls, i) ==
    IF (StartsAt(ls, i, "on") \/ StartsAt(ls, i, "in"))
       /\ StartsAt(ls, AfterSpaces(ls, i + 2), "layer")
    THEN AfterSpaces(ls, i + 2) + 5
    ELSE 0

\* the group of the layer pattern matched at i, "" without a match
LayerGroup(s, ls, i) ==
    IF LayerAt(ls, i) = 0 THEN ""
    ELSE TailCapture(s, LayerAt(ls, i), AfterSpaces(s, LayerAt(ls, i)))

AsStr(group) == IF group = "" THEN None ELSE Str(group)

\* re.search(r'(?:on|in)\s+layer\s+["\']?([^"\']+)["\']?', command, re.I)
_extract_layer(command) ==
    AsStr(LayerGroup(command, lower(command),
             First({i \in 1..Len(command) :
                       LayerGroup(command, lower(command), i) # ""})))

\* kw\s+(-?\d+\.?\d*) at i: the index where the number starts, 0 without a
\* match
KeywordNumberAt(s, ls, kw, i) ==
    IF StartsAt(ls, i, kw) /\ NumberEnd(s, AfterSpaces(s, i + Len(kw))) > 0
    THEN AfterSpaces(s, i + Len(kw))
    ELSE 0

NumberAt(s, j) == IF j = 0 THEN None ELSE Num(Float(SubSeq(s, j, NumberEnd(s, j))))

\* re.search(kw + r'\s+(-?\d+\.?\d*)', command, re.I): float(group(1)), None
\* without a match
KeywordNumber(s, kw) ==
    NumberAt(s, KeywordNumberAt(s, lower(s), kw,
                   First({i \in 1..Len(s) :
                             KeywordNumberAt(s, lower(s), kw, i) > 0})))

\* (?:kw)\s+angle?\s+(-?\d+\.?\d*) at i, for kw one of kws: the index where
\* the number starts, 0 without a match
AngleAfter(s, ls, a) ==
    IF ~StartsAt(ls, a, "angl") THEN 0
    ELSE IF NumberEnd(s, AfterSpaces(s, IF Ch(ls, a + 4) = "e" THEN a + 5
                                        ELSE a + 4)) > 0
    THEN AfterSpaces(s, IF Ch(ls, a + 4) = "e" THEN a + 5 ELSE a + 4)
    ELSE 0

AngleAt(s, ls, kws, i) ==
    First({AngleAfter(s, ls, AfterSpaces(s, i + Len(kw))) :
              kw \in {k \in kws : StartsAt(ls, i, k)}} \ {0})

KeywordAngle(s, kws) ==
    NumberAt(s, AngleAt(s, lower(s), kws,
                   First({i \in 1..Len(s) :
                             AngleAt(s, lower(s), kws, i) > 0})))

\* [^"']+\.dwg from q: the index of the end of the last ".dwg" of the run of
\* characters that are no quotes, 0 without a match
DwgEnd(s, ls, q) ==
    IF q = 0 THEN 0
    ELSE IF {e \in (q + 4)..RunEnd(s, q) : SubSeq(ls, e - 3, e) = ".dwg"} = {}
    THEN 0
    ELSE CHOOSE e \in (q + 4)..RunEnd(s, q) :
            /\ SubSeq(ls, e - 3, e) = ".dwg"
            /\ \A e2 \in (e + 1)..RunEnd(s, q) : SubSeq(ls, e2 - 3, e2) # ".dwg"

\* \s+["']?([^"']+\.dwg) with the \s+ from f and the first character past it
\* at q: the group, "" without a match
FilenameCapture(s, ls, f, q) ==
    IF q = 0 THEN ""
    ELSE IF IsQuote(Ch(s, q)) /\ DwgEnd(s, ls, q + 1) > 0
    THEN SubSeq(s, q + 1, DwgEnd(s, ls, q + 1))
    ELSE IF DwgEnd(s, ls, q) > 0 THEN SubSeq(s, q, DwgEnd(s, ls, q))
    ELSE IF q - f >= 2 /\ DwgEnd(s, ls, q - 1) > 0
    THEN SubSeq(s, q - 1, DwgEnd(s, ls, q - 1))
    ELSE ""

FilenameGroup(s, ls, i) ==
    IF StartsAt(ls, i, "as") \/ StartsAt(ls, i, "to") \/ StartsAt(ls, i, "in")
    THEN FilenameCapture(s, ls, i + 2, AfterSpaces(s, i + 2))
    ELSE ""

\* re.search(r'(?:as|to|in)\s+["\']?([^"\']+\.dwg)["\']?', command, re.I)
_parse_save_command(command) ==
    IF \E i \in 1..Len(command) : FilenameGroup(command, lower(command), i) # ""
    THEN [type |-> "save",
          filename |-> Str(FilenameGroup(command, lower(command),
                             First({i \in 1..Len(command) :
                                 FilenameGroup(command, lower(command), i) # ""})))]
    ELSE [type |-> "save"]

-----------------------------------------------------------------------------
(* NLPProcessor: the parameters of each shape.  A dictionary is a function
   from its keys. *)

\* dict.update
Update(d, u) ==
    [k \in DOMAIN d \cup DOMAIN u |-> IF k \in DOMAIN u THEN u[k] ELSE d[k]]

\* (numbers[0], numbers[1]), (numbers[2], numbers[3]), ...
Pairs(numbers) ==
    [i \in 1..(Len(numbers) \div 2) |->
        Tup(<<numbers[2 * i - 1], numbers[2 * i]>>)]

Pair(numbers, i) == Tup(<<numbers[i], numbers[i + 1]>>)

\* a Python list of the tuples of points
PointList(points) == List([i \in DOMAIN points |-> points[i][2]])

\* _parse_line_params trying the flat numbers before the points
LineParams_numbers_first(points, numbers) ==
    IF Len(numbers) >= 4
    THEN [start_point |-> Pair(numbers, 1), end_point |-> Pair(numbers, 3)]
    ELSE IF Len(points) >= 2
    THEN [start_point |-> points[1], end_point |-> points[2]]
    ELSE [error |-> "Insufficient coordinates for line"]

LineParams(points, numbers) ==
    IF Len(points) >= 2
    THEN [start_point |-> points[1], end_point |-> points[2]]
    ELSE IF Len(numbers) >= 4
    THEN [start_point |-> Pair(numbers, 1), end_point |-> Pair(numbers, 3)]
    ELSE [error |-> "Insufficient coordinates for line"]

_parse_line_params(command, numbers) ==
    LineParams(_extract_points(command), numbers)

\* _parse_circle_params taking the third number whatever the keyword gave
CircleParams_third_number(points, numbers, radius_match) ==
    IF Len(points) >= 1
    THEN IF Len(numbers) >= 3
         THEN [center |-> points[1], radius |-> Num(numbers[3])]
         ELSE IF ~IsNone(radius_match)
         THEN [center |-> points[1], radius |-> radius_match]
         ELSE [error |-> "Missing radius for circle"]
    ELSE IF Len(numbers) >= 3
    THEN [center |-> Pair(numbers, 1), radius |-> Num(numbers[3])]
    ELSE [error |-> "Insufficient parameters for circle"]

CircleParams(points, numbers, radius_match) ==
    IF Len(points) >= 1
    THEN IF ~IsNone(radius_match)
         THEN [center |-> points[1], radius |-> radius_match]
         ELSE IF Len(numbers) >= 3
         THEN [center |-> points[1], radius |-> Num(numbers[3])]
         ELSE [error |-> "Missing radius for circle"]
    ELSE IF Len(numbers) >= 3
    THEN [center |-> Pair(numbers, 1), radius |-> Num(numbers[3])]
    ELSE [error |-> "Insufficient parameters for circle"]

_parse_circle_params(command, numbers) ==
    CircleParams(_extract_points(command), numbers,
                 KeywordNumber(command, "radius"))

ArcParams(points, numbers, radius_match, start_angle_match, end_angle_match) ==
    IF Len(points) >= 1 /\ ~IsNone(radius_match)
       /\ ~IsNone(start_angle_match) /\ ~IsNone(end_angle_match)
    THEN [center |-> points[1], radius |-> radius_match,
          start_angle |-> start_angle_match, end_angle |-> end_angle_match]
    ELSE IF Len(numbers) >= 5
    THEN [center |-> Pair(numbers, 1), radius |-> Num(numbers[3]),
          start_angle |-> Num(numbers[4]), end_angle |-> Num(numbers[5])]
    ELSE [error |-> "Insufficient parameters for arc"]

_parse_arc_params(command, numbers) ==
    ArcParams(_extract_points(command), numbers,
              KeywordNumber(command, "radius"),
              KeywordAngle(command, {"start", "from"}),
              KeywordAngle(command, {"end", "to"}))

RectangleParams(points, numbers) ==
    IF Len(points) >= 2
    THEN [corner1 |-> points[1], corner2 |-> points[2]]
    ELSE IF Len(numbers) >= 4
    THEN [corner1 |-> Pair(numbers, 1), corner2 |-> Pair(numbers, 3)]
    ELSE [error |-> "Insufficient coordinates for rectangle"]

_parse_rectangle_params(command, numbers) ==
    RectangleParams(_extract_points(command), numbers)

PolylineParams(points, numbers, closed) ==
    IF Len(points) >= 2
    THEN [points |-> PointList(points), closed |-> Bool(closed)]
    ELSE IF Len(numbers) >= 4 /\ Len(numbers) % 2 = 0
    THEN [points |-> PointList(Pairs(numbers)), closed |-> Bool(closed)]
    ELSE [error |-> "Insufficient points for polyline"]

_parse_polyline_params(command, numbers) ==
    PolylineParams(_extract_points(command), numbers,
                   Contains(lower(command), "closed")
                      \/ Contains(lower(command), "close"))

\* ["']([^"']+)["'] at i
QuotedAt(s, i) ==
    /\ IsQuote(Ch(s, i))
    /\ i + 1 <= Len(s)
    /\ ~IsQuote(Ch(s, i + 1))
    /\ RunEnd(s, i + 1) < Len(s)

\* (?:\s+at|\s+$) at t
Terminates(s, ls, t) ==
    /\ IsSpace(Ch(s, t))
    /\ \/ SkipSpaces(s, t) > Len(s)
       \/ StartsAt(ls, SkipSpaces(s, t), "at")

\* ([^"']+?)["']?(?:\s+at|\s+$) from st: the index of the end of the group,
\* the shortest there is; 0 without a match
LazyEnd(s, ls, st) ==
    First({e \in st..RunEnd(s, st) :
              \/ Terminates(s, ls, e + 1)
              \/ IsQuote(Ch(s, e + 1)) /\ Terminates(s, ls, e + 2)})

\* ["']?([^"']+?)... from st: where the group starts and ends
CaptureFrom(s, ls, st) ==
    IF st = 0 THEN <<0, 0>>
    ELSE IF IsQuote(Ch(s, st)) THEN <<st + 1, LazyEnd(s, ls, st + 1)>>
    ELSE <<st, LazyEnd(s, ls, st)>>

\* saying\s+ at p: the index of the first character past it, 0 without it
SayingStart(s, ls, p) ==
    IF StartsAt(ls, p, "saying") THEN AfterSpaces(s, p + 6) ELSE 0

\* (?:saying\s+)?["']?([^"']+?)... from p, "saying" taken when the rest
\* then matches
TextAfter(s, ls, p) ==
    IF p = 0 THEN <<0, 0>>
    ELSE IF CaptureFrom(s, ls, SayingStart(s, ls, p))[2] > 0
    THEN CaptureFrom(s, ls, SayingStart(s, ls, p))
    ELSE CaptureFrom(s, ls, p)

\* the second pattern for the text, at i: (?:text|label)\s+...
TextFallbackAt(s, ls, i) ==
    IF StartsAt(ls, i, "text") THEN TextAfter(s, ls, AfterSpaces(s, i + 4))
    ELSE IF StartsAt(ls, i, "label")
    THEN TextAfter(s, ls, AfterSpaces(s, i + 5))
    ELSE <<0, 0>>

Group(s, m) == IF m[2] = 0 THEN "" ELSE SubSeq(s, m[1], m[2])

\* group(1) of the match for the text: the quoted string, else what follows
\* "text" or "label"; "" without a match
TextGroup(s) ==
    IF \E i \in 1..Len(s) : QuotedAt(s, i)
    THEN SubSeq(s, First({i \in 1..Len(s) : QuotedAt(s, i)}) + 1,
                RunEnd(s, First({i \in 1..Len(s) : QuotedAt(s, i)}) + 1))
    ELSE IF \E i \in 1..Len(s) : TextFallbackAt(s, lower(s), i)[2] > 0
    THEN Group(s, TextFallbackAt(s, lower(s),
                     First({i \in 1..Len(s) :
                               TextFallbackAt(s, lower(s), i)[2] > 0})))
    ELSE ""

RECURSIVE strip(_)
\* str.strip()
strip(s) ==
    IF Len(s) = 0 THEN ""
    ELSE IF IsSpace(Ch(s, 1)) THEN strip(SubSeq(s, 2, Len(s)))
    ELSE IF IsSpace(Ch(s, Len(s))) THEN strip(SubSeq(s, 1, Len(s) - 1))
    ELSE s

\* the keys of the result, and what each holds
TextParams(points, numbers, text, height_match) ==
    [k \in (IF text # "" THEN {"text"} ELSE {"error"})
           \cup (IF Len(points) >= 1 \/ Len(numbers) >= 2 THEN {"position"}
                 ELSE {"error"})
           \cup (IF IsNone(height_match) THEN {} ELSE {"height"}) |->
        CASE k = "text" -> Str(strip(text))
          [] k = "position" -> IF Len(points) >= 1 THEN points[1]
                               ELSE Pair(numbers, 1)
          [] k = "height" -> height_match
          [] k = "error" -> IF Len(points) >= 1 \/ Len(numbers) >= 2
                            THEN "No text content found"
                            ELSE "No position specified for text"]

_parse_text_params(command, numbers) ==
    TextParams(_extract_points(command), numbers, TextGroup(command),
               KeywordNumber(command, "height"))

\* pattern\s+["']?([^"']+)["']? at i: the group, "" without a match
PatternGroup(s, ls, i) ==
    IF StartsAt(ls, i, "pattern")
    THEN TailCapture(s, i + 7, AfterSpaces(s, i + 7))
    ELSE ""

PatternMatch(s) ==
    AsStr(PatternGroup(s, lower(s),
             First({i \in 1..Len(s) : PatternGroup(s, lower(s), i) # ""})))

HatchParams(points, numbers, pattern_match) ==
    [k \in (IF Len(points) >= 3
               \/ (Len(numbers) >= 6 /\ Len(numbers) % 2 = 0)
            THEN {"outer_loop_points"} ELSE {"error"})
           \cup (IF IsNone(pattern_match) THEN {} ELSE {"pattern_name"}) |->
        CASE k = "outer_loop_points" ->
                 IF Len(points) >= 3 THEN PointList(points)
                 ELSE PointList(Pairs(numbers))
          [] k = "pattern_name" -> pattern_match
          [] k = "error" -> "Insufficient points for hatch boundary"]

_parse_hatch_params(command, numbers) ==
    HatchParams(_extract_points(command), numbers, PatternMatch(command))

DimensionParams(points, numbers) ==
    IF Len(points) >= 3
    THEN [point1 |-> points[1], point2 |-> points[2],
          text_position |-> points[3]]
    ELSE IF Len(numbers) >= 6
    THEN [point1 |-> Pair(numbers, 1), point2 |-> Pair(numbers, 3),
          text_position |-> Pair(numbers, 5)]
    ELSE [error |-> "Insufficient points for dimension"]

_parse_dimension_params(command, numbers) ==
    DimensionParams(_extract_points(command), numbers)

ShapeParams(command, shape, numbers) ==
    CASE shape = "line" -> _parse_line_params(command, numbers)
      [] shape = "circle" -> _parse_circle_params(command, numbers)
      [] shape = "arc" -> _parse_arc_params(command, numbers)
      [] shape = "rectangle" -> _parse_rectangle_params(command, numbers)
      [] shape = "polyline" -> _parse_polyline_params(command, numbers)
      [] shape = "text" -> _parse_text_params(command, numbers)
      [] shape = "hatch" -> _parse_hatch_params(command, numbers)
      [] shape = "dimension" -> _parse_dimension_params(command, numbers)

\* color is the colour _extract_color returned
_parse_draw_command(command, shape, color) ==
    Update([type |-> "draw", shape |-> shape, color |-> color,
            layer |-> _extract_layer(command)],
           ShapeParams(command, shape, _extract_numbers(command)))

parse_command(command, color) ==
    IF _detect_command_type(lower(command)) = "save"
    THEN _parse_save_command(command)
    ELSE IF _detect_command_type(lower(command)) \in DOMAIN shape_keywords
    THEN _parse_draw_command(command, _detect_command_type(lower(command)),
                             color)
    ELSE [type |-> "unknown", original |-> command]

-----------------------------------------------------------------------------
(* The calls the model makes on the backend *)

Call(op, pos, kw) == [op |-> op, pos |-> pos, kw |-> kw]

NoKw == <<>>

\* outcomes of the engine calls of start_cad
StartOutcomes ==
    { [new |-> TRUE, attach |-> TRUE, launch |-> "ok", docs |-> "active"],
      [new |-> TRUE, attach |-> FALSE, launch |-> "ok", docs |-> "add"],
      [new |-> FALSE, attach |-> FALSE, launch |-> "dispatch_raises",
       docs |-> "active"],
      [new |-> FALSE, attach |-> FALSE, launch |-> "visible_raises",
       docs |-> "active"],
      [new |-> FALSE, attach |-> TRUE, launch |-> "ok", docs |-> "raises"] }

CreateLayerCalls ==
    { Call("create_layer", <<Str("walls")>>, NoKw) }

SaveDrawingCalls ==
    { Call("save_drawing", <<Str("./output/demo_drawing.dwg")>>,
           NoKw) }

DrawLineCalls ==
    { Call("draw_line", <<Tup(<<0, 0>>), Tup(<<100, 100>>)>>, NoKw),
      Call("draw_line", <<Tup(<<0, 0, 0>>), Tup(<<200, 200, 0>>)>>,
           [layer |-> Str("walls"), color |-> PyInt(3),
            lineweight |-> PyInt(7)]) }

DrawCircleCalls ==
    { Call("draw_circle", <<Tup(<<0, 0, 0>>), Num(100)>>,
           [layer |-> Str("walls"), color |-> PyInt(1),
            lineweight |-> PyInt(25)]) }

DrawArcCalls ==
    { Call("draw_arc", <<Tup(<<0, 0>>), Num(50), Num(0), Num(900)>>, NoKw) }

DrawRectangleCalls ==
    { Call("draw_rectangle", <<Tup(<<50, 50, 10>>), Tup(<<150, 250, 20>>)>>,
           [color |-> PyInt(5)]) }

DrawPolylineCalls ==
    { Call("draw_polyline",
           <<List(<< <<0, 0>>, <<100, 0>>, <<100, 100>> >>)>>,
           [closed |-> Bool(TRUE), color |-> PyInt(4)]),
      Call("draw_polyline", <<List(<< <<0, 0>> >>)>>, NoKw) }

DrawTextCalls ==
    { Call("draw_text", <<Tup(<<0, -50, 0>>), Str("CAD-MCP")>>,
           [height |-> Num(30), layer |-> Str("walls"), color |-> PyInt(7)]) }

DrawHatchCalls ==
    { Call("draw_hatch",
           <<List(<< <<0, 0>>, <<100, 0>>, <<100, 100>> >>)>>,
           [pattern_name |-> Str("ANSI31"), layer |-> Str("walls")]),
      Call("draw_hatch", <<List(<< <<0, 0>>, <<100, 0>> >>)>>, NoKw) }

AddDimensionCalls ==
    { Call("add_dimension", <<Tup(<<0, 0>>), Tup(<<100, 0>>)>>,
           [color |-> PyInt(2)]) }

-----------------------------------------------------------------------------
(* server.py: the input models of the tools.  arguments is a dictionary, a
   function from its keys. *)

FloatField == [type |-> "float", required |-> TRUE, default |-> None]

OptionalStrField == [type |-> "Optional[str]", required |-> FALSE, default |-> None]

PointsField == [type |-> "list[tuple[float, float]]", required |-> TRUE,
           default |-> None]

ToolNames == {"draw_line", "draw_circle", "draw_arc", "draw_rectangle",
              "draw_polyline", "draw_text", "draw_hatch", "add_dimension",
              "save_drawing", "process_command"}

\* LineInput ... CommandInput: the fields of the input model of a tool
InputModel(name) ==
    CASE name = "draw_line" ->
            [start_x |-> FloatField, start_y |-> FloatField, end_x |-> FloatField,
             end_y |-> FloatField, color |-> OptionalStrField, layer |-> OptionalStrField]
      [] name = "draw_circle" ->
            [center_x |-> FloatField, center_y |-> FloatField, radius |-> FloatField,
             color |-> OptionalStrField, layer |-> OptionalStrField]
      [] name = "draw_arc" ->
            [center_x |-> FloatField, center_y |-> FloatField, radius |-> FloatField,
             start_angle |-> FloatField, end_angle |-> FloatField,
             color |-> OptionalStrField, layer |-> OptionalStrField]
      [] name = "draw_rectangle" ->
            [corner1_x |-> FloatField, corner1_y |-> FloatField, corner2_x |-> FloatField,
             corner2_y |-> FloatField, color |-> OptionalStrField,
             layer |-> OptionalStrField]
      [] name = "draw_polyline" ->
            [points |-> PointsField,
             closed |-> [type |-> "bool", required |-> FALSE,
                         default |-> Bool(FALSE)],
             color |-> OptionalStrField, layer |-> OptionalStrField]
      [] name = "draw_text" ->
            [x |-> FloatField, y |-> FloatField,
             text |-> [type |-> "str", required |-> TRUE, default |-> None],
             height |-> [type |-> "float", required |-> FALSE,
                         default |-> Num(25)],
             color |-> OptionalStrField, layer |-> OptionalStrField]
      [] name = "draw_hatch" ->
            [points |-> PointsField,
             pattern_name |-> [type |-> "str", required |-> FALSE,
                               default |-> Str("ANSI31")],
             color |-> OptionalStrField, layer |-> OptionalStrField]
      [] name = "add_dimension" ->
            [point1_x |-> FloatField, point1_y |-> FloatField, point2_x |-> FloatField,
             point2_y |-> FloatField, text_x |-> FloatField, text_y |-> FloatField,
             color |-> OptionalStrField, layer |-> OptionalStrField]
      [] name = "save_drawing" -> [filename |-> OptionalStrField]
      [] name = "process_command" ->
            [command |-> [type |-> "str", required |-> TRUE,
                          default |-> None]]

\* what the validation of a field accepts
TypeOk(type, v) ==
    CASE type = "float" -> v[1] \in {"num", "int"}
      [] type = "str" -> v[1] = "str"
      [] type = "Optional[str]" -> v[1] \in {"str", "None"}
      [] type = "bool" -> v[1] = "bool"
      [] type = "list[tuple[float, float]]" ->
            v[1] = "list" /\ \A i \in DOMAIN v[2] : Len(v[2][i]) = 2

\* the input model accepts the arguments: no ValidationError
Valid(name, arguments) ==
    \A f \in DOMAIN InputModel(name) :
        IF f \in DOMAIN arguments
        THEN TypeOk(InputModel(name)[f].type, arguments[f])
        ELSE ~InputModel(name)[f].required

\* an int given for a float field becomes that float (numbers are in tenths)
Coerce(type, v) ==
    IF type = "float" /\ v[1] = "int" THEN Num(v[2] * 10) ELSE v

\* args = XInput(**arguments)
Validated(name, arguments) ==
    [f \in DOMAIN InputModel(name) |->
        IF f \in DOMAIN arguments
        THEN Coerce(InputModel(name)[f].type, arguments[f])
        ELSE InputModel(name)[f].default]

\* (args.x, args.y)
XY(x, y) == Tup(<<x[2], y[2]>>)

\* the call of the controller that the branch of a tool makes
ToolCall(name, args) ==
    CASE name = "draw_line" ->
            Call("draw_line", <<>>,
                 [start_point |-> XY(args.start_x, args.start_y),
                  end_point |-> XY(args.end_x, args.end_y),
                  color |-> args.color, layer |-> args.layer])
      [] name = "draw_circle" ->
            Call("draw_circle", <<>>,
                 [center |-> XY(args.center_x, args.center_y),
                  radius |-> args.radius,
                  color |-> args.color, layer |-> args.layer])
      [] name = "draw_arc" ->
            Call("draw_arc", <<>>,
                 [center |-> XY(args.center_x, args.center_y),
                  radius |-> args.radius, start_angle |-> args.start_angle,
                  end_angle |-> args.end_angle,
                  color |-> args.color, layer |-> args.layer])
      [] name = "draw_rectangle" ->
            Call("draw_rectangle", <<>>,
                 [corner1 |-> XY(args.corner1_x, args.corner1_y),
                  corner2 |-> XY(args.corner2_x, args.corner2_y),
                  color |-> args.color, layer |-> args.layer])
      [] name = "draw_polyline" ->
            Call("draw_polyline", <<>>,
                 [points |-> args.points, closed |-> args.closed,
                  color |-> args.color, layer |-> args.layer])
      [] name = "draw_text" ->
            Call("draw_text", <<>>,
                 [position |-> XY(args.x, args.y), text |-> args.text,
                  height |-> args.height,
                  color |-> args.color, layer |-> args.layer])
      [] name = "draw_hatch" ->
            Call("draw_hatch", <<>>,
                 [outer_loop_points |-> args.points,
                  pattern_name |-> args.pattern_name,
                  color |-> args.color, layer |-> args.layer])
      [] name = "add_dimension" ->
            Call("add_dimension", <<>>,
                 [point1 |-> XY(args.point1_x, args.point1_y),
                  point2 |-> XY(args.point2_x, args.point2_y),
                  text_position |-> XY(args.text_x, args.text_y),
                  color |-> args.color, layer |-> args.layer])
      [] name = "save_drawing" ->
            Call("save_drawing", <<>>, [filename |-> args.filename])

-----------------------------------------------------------------------------
(* server.py: call_tool and process_natural_language_command.  Each gives
   the world it leaves, what it returns and the calls it made on the
   controller, with what each returned. *)

\* cad_controller.<c.op>(*c.pos, **c.kw)
Invoke(w, ez, c, fault) ==
    Logged(c, Method(w, c,
        CASE c.op = "create_layer" -> create_layer(w, ez, Args(c), fault)
          [] c.op = "save_drawing" -> save_drawing(w, ez, Args(c), fault)
          [] c.op = "draw_line" -> draw_line(w, ez, Args(c), fault)
          [] c.op = "draw_circle" -> draw_circle(w, ez, Args(c), fault)
          [] c.op = "draw_arc" -> draw_arc(w, ez, Args(c), fault)
          [] c.op = "draw_rectangle" -> draw_rectangle(w, ez, Args(c), fault)
          [] c.op = "draw_polyline" -> draw_polyline(w, ez, Args(c), fault)
          [] c.op = "draw_text" -> draw_text(w, ez, Args(c), fault)
          [] c.op = "draw_hatch" -> draw_hatch(w, ez, Args(c), fault)
          [] c.op = "add_dimension" -> add_dimension(w, ez, Args(c), fault)))

\* dict.get(k, default)
Get(d, k, default) == IF k \in DOMAIN d THEN d[k] ELSE default

\* the keys a shape needs before the controller is called
RequiredKeys(shape) ==
    CASE shape = "line" -> {"start_point", "end_point"}
      [] shape = "circle" -> {"center", "radius"}
      [] shape = "arc" -> {"center", "radius", "start_angle", "end_angle"}
      [] shape = "rectangle" -> {"corner1", "corner2"}
      [] shape = "polyline" -> {"points"}
      [] shape = "text" -> {"position", "text"}
      [] shape = "hatch" -> {"outer_loop_points"}
      [] shape = "dimension" -> {"point1", "point2", "text_position"}
      [] OTHER -> {}

MissingText(shape) ==
    CASE shape = "line" -> "Missing coordinates for line"
      [] shape = "circle" -> "Missing parameters for circle"
      [] shape = "arc" -> "Missing parameters for arc"
      [] shape = "rectangle" -> "Missing coordinates for rectangle"
      [] shape = "polyline" -> "Missing points for polyline"
      [] shape = "text" -> "Missing parameters for text"
      [] shape = "hatch" -> "Missing boundary points for hatch"
      [] shape = "dimension" -> "Missing points for dimension"

\* the call of the controller made for a parsed command: the arguments are
\* positional, color before layer
CommandCall(parsed) ==
    IF parsed.type = "save"
    THEN Call("save_drawing", <<Get(parsed, "filename", None)>>, NoKw)
    ELSE CASE parsed.shape = "line" ->
                 Call("draw_line",
                      <<parsed.start_point, parsed.end_point, parsed.color,
                        parsed.layer>>, NoKw)
           [] parsed.shape = "circle" ->
                 Call("draw_circle",
                      <<parsed.center, parsed.radius, parsed.color,
                        parsed.layer>>, NoKw)
           [] parsed.shape = "arc" ->
                 Call("draw_arc",
                      <<parsed.center, parsed.radius, parsed.start_angle,
                        parsed.end_angle, parsed.color, parsed.layer>>, NoKw)
           [] parsed.shape = "rectangle" ->
                 Call("draw_rectangle",
                      <<parsed.corner1, parsed.corner2, parsed.color,
                        parsed.layer>>, NoKw)
           [] parsed.shape = "polyline" ->
                 Call("draw_polyline",
                      <<parsed.points, Get(parsed, "closed", Bool(FALSE)),
                        parsed.color, parsed.layer>>, NoKw)
           [] parsed.shape = "text" ->
                 Call("draw_text",
                      <<parsed.position, parsed.text,
                        Get(parsed, "height", Num(25)), parsed.color,
                        parsed.layer>>, NoKw)
           [] parsed.shape = "hatch" ->
                 Call("draw_hatch",
                      <<parsed.outer_loop_points,
                        Get(parsed, "pattern_name", Str("ANSI31")),
                        parsed.color, parsed.layer>>, NoKw)
           [] parsed.shape = "dimension" ->
                 Call("add_dimension",
                      <<parsed.point1, parsed.point2, parsed.text_position,
                        parsed.color, parsed.layer>>, NoKw)

\* a return without a call of the controller
Said(w, text) == [w |-> w, ret |-> Str(text), calls |-> <<>>]

\* except Exception as e: return f"Error processing command: {str(e)}"
Caught(r) ==
    [r EXCEPT !.ret = IF IsExc(@)
                      THEN Str("Error processing command: " \o @[2]) ELSE @]

\* process_natural_language_command saving the drawing when it does not
\* understand the command
process_natural_language_command_saves(w, ez, command, parsed, fault) ==
    IF parsed.type = "unknown"
    THEN Caught(Invoke(w, ez, Call("save_drawing", <<None>>, NoKw), fault))
    ELSE IF "error" \in DOMAIN parsed
    THEN Said(w, "Error parsing command: " \o parsed.error)
    ELSE IF parsed.type = "draw"
            /\ ~(RequiredKeys(parsed.shape) \subseteq DOMAIN parsed)
    THEN Said(w, MissingText(parsed.shape))
    ELSE Caught(Invoke(w, ez, CommandCall(parsed), fault))

\* parsed is what nlp_processor.parse_command(command) gave
process_natural_language_command(w, ez, command, parsed, fault) ==
    IF parsed.type = "unknown"
    THEN Said(w, "Could not understand command: " \o command)
    ELSE IF "error" \in DOMAIN parsed
    THEN Said(w, "Error parsing command: " \o parsed.error)
    ELSE IF parsed.type \notin {"save", "draw"}
            \/ (parsed.type = "draw" /\ parsed.shape \notin Range(ShapeOrder))
    THEN Said(w, "Processed command: " \o command)
    ELSE IF parsed.type = "draw"
            /\ ~(RequiredKeys(parsed.shape) \subseteq DOMAIN parsed)
    THEN Said(w, MissingText(parsed.shape))
    ELSE Caught(Invoke(w, ez, CommandCall(parsed), fault))

\* str(result)
PyStr(v) ==
    CASE v[1] = "str" -> v[2]
      [] v[1] = "None" -> "None"
      [] v[1] = "bool" -> IF v[2] THEN "True" ELSE "False"
      [] OTHER -> "<entity>"

\* [TextContent(type="text", text=...)]: str(result), or the error message
\* when the branch raised
Answered(name, r) ==
    [w |-> r.w, calls |-> r.calls,
     ret |-> IF IsExc(r.ret)
             THEN "Error executing " \o name \o ": " \o r.ret[2]
             ELSE PyStr(r.ret)]

Raised(w, e) == [w |-> w, ret |-> Exc(e), calls |-> <<>>]

\* call_tool with a last branch that saves the drawing under the name given
call_tool_fallthrough(w, ez, name, arguments, fault, parsed) ==
    IF name \notin ToolNames
    THEN Answered(name,
            Invoke(w, ez, Call("save_drawing", <<Str(name)>>, NoKw), fault))
    ELSE IF ~Valid(name, arguments)
    THEN Answered(name, Raised(w, "ValidationError"))
    ELSE IF name = "process_command"
    THEN Answered(name,
            process_natural_language_command(w, ez,
                Validated(name, arguments).command[2], parsed, fault))
    ELSE Answered(name,
            Invoke(w, ez, ToolCall(name, Validated(name, arguments)), fault))

\* parsed is what the parser gives for the command of process_command
call_tool(w, ez, name, arguments, fault, parsed) ==
    IF name \notin ToolNames
    THEN [w |-> w, ret |-> "Unknown tool: " \o name, calls |-> <<>>]
    ELSE IF ~Valid(name, arguments)
    THEN Answered(name, Raised(w, "ValidationError"))
    ELSE IF name = "process_command"
    THEN Answered(name,
            process_natural_language_command(w, ez,
                Validated(name, arguments).command[2], parsed, fault))
    ELSE Answered(name,
            Invoke(w, ez, ToolCall(name, Validated(name, arguments)), fault))

-----------------------------------------------------------------------------
(* The state machine of the backend *)

InitWorld == [app |-> "None", doc |-> "None", layers |-> <<>>,
              entities |-> <<>>, files |-> {}, dirs |-> {},
              session |-> "Unconnected"]

\* Unconnected -> Ready -> Closed, as the caller of start_cad and close sees it
SessionAfter(s, name, ret) ==
    IF name = "start_cad" /\ ret = Bool(TRUE) THEN "Ready"
    ELSE IF name = "close" /\ s = "Ready" THEN "Closed"
    ELSE s

Last(via, name, args, parsed, fault, ret, calls) ==
    [via |-> via, name |-> name, args |-> args, parsed |-> parsed,
     fault |-> fault, ret |-> ret, pre |-> World, calls |-> calls]

\* CADController.__init__: no session; the backend is chosen by what the
\* platform has installed
Init ==
    /\ use_ezdxf \in BOOLEAN
    /\ app = "None"
    /\ doc = "None"
    /\ layers = <<>>
    /\ entities = <<>>
    /\ files = {}
    /\ dirs = {}
    /\ session = "Unconnected"
    /\ last = [via |-> "init", name |-> "__init__", args |-> <<>>,
               parsed |-> <<>>, fault |-> "none", ret |-> None,
               pre |-> InitWorld, calls |-> <<>>]

Becomes(w) ==
    /\ app' = w.app
    /\ doc' = w.doc
    /\ layers' = w.layers
    /\ entities' = w.entities
    /\ files' = w.files
    /\ dirs' = w.dirs
    /\ session' = w.session
    /\ UNCHANGED use_ezdxf

\* one call c of a backend method by the program that owns the controller;
\* r is what the call does to the world and returns
Api(c, fault, r) ==
    /\ Becomes([r.w EXCEPT !.session = SessionAfter(@, c.op, r.ret)])
    /\ last' = Last("api", c.op, c, <<>>, fault, r.ret,
                    <<[call |-> c, ret |-> r.ret]>>)

\* the methods that add an entity
DrawOps == {"draw_line", "draw_circle", "draw_arc", "draw_rectangle",
            "draw_polyline", "draw_text", "draw_hatch", "add_dimension"}

Room == Len(entities) < MaxEntities

StartCad ==
    \E o \in StartOutcomes :
        Api(Call("start_cad", <<>>, NoKw), o, start_cad(World, use_ezdxf, o))

IsRunning ==
    Api(Call("is_running", <<>>, NoKw), "none", Ret(World, is_running(World)))

RefreshView ==
    Api(Call("refresh_view", <<>>, NoKw), "none",
        refresh_view(World, use_ezdxf))

Close == Api(Call("close", <<>>, NoKw), "none", close(World, use_ezdxf))

\* the lineweights a caller asks about: none, in the list, not in the list
Lineweights == {None, PyInt(25), PyInt(7), PyInt(-1), Num(50)}

ValidateLineweight ==
    \E v \in Lineweights :
        Api(Call("validate_lineweight", <<v>>, NoKw), "none",
            Ret(World, validate_lineweight(v)))

CreateLayer ==
    \E c \in CreateLayerCalls, f \in {"none", "layer"} :
        Api(c, f, Method(World, c, create_layer(World, use_ezdxf, Args(c), f)))

SaveDrawing ==
    \E c \in SaveDrawingCalls, f \in {"none", "mkdir", "io"} :
        Api(c, f, Method(World, c, save_drawing(World, use_ezdxf, Args(c), f)))

DrawLine ==
    /\ Room
    /\ \E c \in DrawLineCalls, f \in {"none", "layer", "add", "attr"} :
          Api(c, f, Method(World, c, draw_line(World, use_ezdxf, Args(c), f)))

DrawCircle ==
    /\ Room
    /\ \E c \in DrawCircleCalls, f \in {"none", "add", "attr"} :
          Api(c, f, Method(World, c, draw_circle(World, use_ezdxf, Args(c), f)))

DrawArc ==
    /\ Room
    /\ \E c \in DrawArcCalls, f \in {"none", "add"} :
          Api(c, f, Method(World, c, draw_arc(World, use_ezdxf, Args(c), f)))

DrawRectangle ==
    /\ Room
    /\ \E c \in DrawRectangleCalls, f \in {"none", "add"} :
          Api(c, f,
              Method(World, c, draw_rectangle(World, use_ezdxf, Args(c), f)))

DrawPolyline ==
    /\ Room
    /\ \E c \in DrawPolylineCalls, f \in {"none", "add", "attr"} :
          Api(c, f,
              Method(World, c, draw_polyline(World, use_ezdxf, Args(c), f)))

DrawText ==
    /\ Room
    /\ \E c \in DrawTextCalls, f \in {"none", "add", "attr"} :
          Api(c, f, Method(World, c, draw_text(World, use_ezdxf, Args(c), f)))

DrawHatch ==
    /\ Room
    /\ \E c \in DrawHatchCalls,
          f \in {"none", "layer", "add", "boundary", "attr"} :
          Api(c, f, Method(World, c, draw_hatch(World, use_ezdxf, Args(c), f)))

AddDimension ==
    /\ Room
    /\ \E c \in AddDimensionCalls, f \in {"none", "add", "attr"} :
          Api(c, f,
              Method(World, c, add_dimension(World, use_ezdxf, Args(c), f)))

Next ==
    \/ StartCad
    \/ IsRunning
    \/ RefreshView
    \/ Close
    \/ CreateLayer
    \/ SaveDrawing
    \/ DrawLine
    \/ DrawCircle
    \/ DrawArc
    \/ DrawRectangle
    \/ DrawPolyline
    \/ DrawText
    \/ DrawHatch
    \/ AddDimension
    \/ ValidateLineweight

Spec == Init /\ [][Next]_vars

-----------------------------------------------------------------------------
(* The state machine of the server: the controller is a module-level object
   of server.py, so the program that imports the server can call start_cad
   and close on it; the client calls the tools. *)

Tool(name, arguments) == [name |-> name, arguments |-> arguments]

\* the tool calls of the client: one well-formed call of each tool, calls
\* the input model rejects, and names that are no tool
ToolCalls ==
    { Tool("draw_line", [start_x |-> Num(0), start_y |-> Num(0),
                         end_x |-> Num(100), end_y |-> Num(100)]),
      Tool("draw_circle", [center_x |-> Num(50), center_y |-> Num(50),
                           radius |-> Num(25)]),
      Tool("draw_circle", [center_x |-> PyInt(1), center_y |-> Num(-20),
                           radius |-> Num(5), color |-> Str("red"),
                           layer |-> Str("walls")]),
      Tool("draw_circle", [center_x |-> Num(50), center_y |-> Num(50)]),
      Tool("draw_arc", [center_x |-> Num(0), center_y |-> Num(0),
                        radius |-> Num(50), start_angle |-> Num(0),
                        end_angle |-> Num(900)]),
      Tool("draw_rectangle", [corner1_x |-> Num(0), corner1_y |-> Num(0),
                              corner2_x |-> Num(200), corner2_y |-> Num(100)]),
      Tool("draw_polyline",
           [points |-> List(<< <<0, 0>>, <<100, 0>>, <<100, 100>> >>)]),
      Tool("draw_text", [x |-> Num(10), y |-> Num(20), text |-> Str("Hello")]),
      Tool("draw_text", [x |-> Num(10), y |-> Num(20), text |-> PyInt(5)]),
      Tool("draw_hatch",
           [points |-> List(<< <<0, 0>>, <<100, 0>>, <<100, 100>> >>)]),
      Tool("add_dimension", [point1_x |-> Num(0), point1_y |-> Num(0),
                             point2_x |-> Num(100), point2_y |-> Num(0),
                             text_x |-> Num(50), text_y |-> Num(50)]),
      Tool("save_drawing", [filename |-> Str("out.dwg")]),
      Tool("process_command", <<>>),
      Tool("draw_ellipse", [center_x |-> Num(0), center_y |-> Num(0)]),
      Tool("close", <<>>) }

\* the free-text commands of the client: draws that parse, draws whose
\* parameters are missing, saves with and without a file name, and text
\* that is no command
Commands ==
    { "draw a red line from (0,0) to (10,10) on layer walls",
      "draw a circle at (5,5) radius 2.5",
      "draw a line",
      "arc 0 0 5",
      "make a box 1 2 3",
      "draw a polygon 0 0 10",
      "text at nowhere",
      "add text at (1,2)",
      "fill 0 0 10 0 pattern ANSI31",
      "add dimension (0,0) (10,0) in blue",
      "Save to plans/Floor.dwg",
      "save the drawing",
      "hello world" }

\* each command with each dictionary parse_command can give for it
ParseTable ==
    UNION { { [command |-> c, parsed |-> parse_command(c, color)] :
                color \in _extract_color(c) } : c \in Commands }

\* one tool call of the client; r is what call_tool does and returns
Served(name, arguments, parsed, fault, r) ==
    /\ Becomes(r.w)
    /\ last' = Last("call_tool", name, arguments, parsed, fault, r.ret,
                    r.calls)

\* a structured tool, or a name that is no tool
CallTool ==
    \E t \in ToolCalls, f \in {"none", "add"} :
        /\ t.name \in DrawOps => Room
        /\ Served(t.name, t.arguments, <<>>, f,
                  call_tool(World, use_ezdxf, t.name, t.arguments, f, <<>>))

\* the process_command tool with a free-text command
ProcessCommand ==
    \E e \in ParseTable, f \in {"none"} :
        /\ e.parsed.type = "draw" => Room
        /\ Served("process_command", [command |-> Str(e.command)], e.parsed,
                  f,
                  call_tool(World, use_ezdxf, "process_command",
                            [command |-> Str(e.command)], f, e.parsed))

NextServer ==
    \/ StartCad
    \/ Close
    \/ CallTool
    \/ ProcessCommand

ServerSpec == Init /\ [][NextServer]_vars

-----------------------------------------------------------------------------
(* The functions of the parser and of the controller, each applied to one
   input: last holds the input, then the function and its result. *)

\* the coordinates of the points handed to _normalize_point run from
\* -MaxCoord to MaxCoord
MaxCoord == 1

ColourWords == {"", "red ", "GREY ", "red blue "}

ShapeWords == {"line", "Circle", "arc", "box", "polygon", "text", "hatch",
               "dimension", "thing"}

Geometry ==
    { "",
      " 7 at (1,2) 5 0 90",
      " at (1,2) from angle 0 to angle 90 radius 2.5",
      " 9 from (0,0) to (10,10)",
      " 1 2 3 4",
      " 4 (0,0) (10,0) (10,10.5)",
      " 'hi' at (1,2) height 3",
      " 3 at -1.5,2 radius of 4" }

Tails == {"", " pattern ANSI31 closed on layer walls"}

\* the commands handed to the parser: draws of every shape and of none,
\* commands that hold a save keyword next to the shape, and every shape
\* keyword on its own
Texts ==
    { "draw a " \o c \o sh \o g \o t :
        c \in ColourWords, sh \in ShapeWords, g \in Geometry, t \in Tails }
    \cup { v \o sh \o t : v \in {"Save the ", "export a red "},
                           sh \in ShapeWords, t \in {"", " to out.dwg"} }
    \cup UNION { shape_keywords[ShapeOrder[i]] : i \in DOMAIN ShapeOrder }

\* the points handed to _normalize_point: two to four coordinates
Points == UNION { [1..n -> -MaxCoord..MaxCoord] : n \in 2..4 }

Input(kind, v) ==
    [via |-> "input", name |-> kind, args |-> v, parsed |-> <<>>,
     fault |-> "none", ret |-> None, pre |-> InitWorld, calls |-> <<>>]

FunctionInit ==
    /\ use_ezdxf \in BOOLEAN
    /\ app = "None"
    /\ doc = "None"
    /\ layers = <<>>
    /\ entities = <<>>
    /\ files = {}
    /\ dirs = {}
    /\ session = "Unconnected"
    /\ last \in {Input("command", Str(c)) : c \in Texts}
                \cup {Input("point", Tup(p)) : p \in Points}

\* a function applied to the input: the drawing is not touched
Applied(via, name, parsed, ret) ==
    /\ last' = [last EXCEPT !.via = via, !.name = name, !.parsed = parsed,
                            !.ret = ret]
    /\ UNCHANGED <<use_ezdxf, app, doc, layers, entities, files, dirs,
                   session>>

\* parse_command classifies command.lower()
DetectCommandType ==
    /\ last.via = "input"
    /\ last.name = "command"
    /\ Applied("nlp", "_detect_command_type", <<>>,
               Str(_detect_command_type(lower(last.args[2]))))

ParseCommand ==
    /\ last.via = "input"
    /\ last.name = "command"
    /\ \E color \in _extract_color(last.args[2]) :
          Applied("nlp", "parse_command", parse_command(last.args[2], color),
                  None)

NormalizePoint ==
    /\ last.via = "input"
    /\ last.name = "point"
    /\ Applied("controller", "_normalize_point", <<>>,
               Tup(_normalize_point(last.args[2])))

NextFunction ==
    \/ DetectCommandType
    \/ ParseCommand
    \/ NormalizePoint

FunctionSpec == FunctionInit /\ [][NextFunction]_vars

-----------------------------------------------------------------------------
(* Properties of the backend *)

WriteOps == DrawOps \cup {"create_layer", "save_drawing"}

\* null or false: how an operation says it did nothing
Rejected(v) == IsNone(v) \/ v = Bool(FALSE)

IsObj(v) == v[1] = "object"

\* C2: while start_cad has never succeeded, a draw, create_layer or
\* save_drawing call returns null/false without raising, starts no session
\* and leaves entities, layers and files as they were.
C2_UnconnectedInert ==
    (last.via = "api" /\ last.name \in WriteOps
       /\ last.pre.session = "Unconnected")
    => /\ Rejected(last.ret)
       /\ World = last.pre

\* C3: once close() has been called on a Ready session, every later draw,
\* create_layer or save_drawing call is rejected: it returns null/false and
\* adds no entity, layer or file.
C3_ClosedRejects ==
    (last.via = "api" /\ last.name \in WriteOps
       /\ last.pre.session = "Closed")
    => /\ Rejected(last.ret)
       /\ entities = last.pre.entities
       /\ layers = last.pre.layers
       /\ files = last.pre.files

\* C4: no backend operation ever raises to its caller.
C4_NeverRaises == last.via = "api" => ~IsExc(last.ret)

-----------------------------------------------------------------------------
(* Properties of the server *)

Ready(w) == is_running(w) = Bool(TRUE)

\* a tool call the input model of the tool accepts
ValidCall == last.via = "call_tool" /\ last.name \in ToolNames
             /\ Valid(last.name, last.args)

\* a free-text command
CommandCalled == ValidCall /\ last.name = "process_command"

\* the command did not parse: unknown, or a draw with an error
ParseFailed == last.parsed.type = "unknown" \/ "error" \in DOMAIN last.parsed

\* C1: the session is created on first use: after a draw or save tool call,
\* structured or free-text, the session is running.
C1_FirstUseStarts ==
    (ValidCall /\ (last.name = "process_command" => ~ParseFailed))
    => Ready(World)

\* C6: a structured draw_circle call with a center and a radius and neither
\* color nor layer, on a running session and with no engine fault, adds
\* exactly one circle with that center at z = 0 and that radius, and adds
\* nothing else.
C6_CircleAdded ==
    (ValidCall /\ last.name = "draw_circle"
       /\ IsNone(Get(last.args, "color", None))
       /\ IsNone(Get(last.args, "layer", None))
       /\ Ready(last.pre) /\ last.fault = "none")
    => /\ entities =
             Append(last.pre.entities,
                Entity("circle",
                       << <<Validated(last.name, last.args).center_x[2],
                            Validated(last.name, last.args).center_y[2], 0>> >>,
                       <<Validated(last.name, last.args).radius>>, FALSE,
                       NoAttribs))
       /\ layers = last.pre.layers
       /\ files = last.pre.files
       /\ app = last.pre.app
       /\ doc = last.pre.doc

\* a plain draw_circle call served on a running session
C6_Witness ==
    /\ ValidCall
    /\ last.name = "draw_circle"
    /\ IsNone(Get(last.args, "color", None))
    /\ IsNone(Get(last.args, "layer", None))
    /\ Ready(last.pre)
    /\ last.fault = "none"
    /\ Len(entities) = Len(last.pre.entities) + 1

\* C7: each of the nine structured tools, called with arguments its input
\* model accepts on a running session, calls the matching method of the
\* controller exactly once with keyword names the method accepts, so the
\* reply is no "Error executing <tool>".
C7_ToolReachesBackend ==
    (ValidCall /\ last.name # "process_command" /\ Ready(last.pre))
    => /\ Len(last.calls) = 1
       /\ last.calls[1].call.op = last.name
       /\ ~IsExc(last.calls[1].ret)
       /\ ~StartsAt(last.ret, 1, "Error executing ")

\* C8: a tool name that is none of the registered tools calls no method of
\* the controller, leaves the drawing as it was and is answered with the
\* text that names the unknown tool.
C8_UnknownTool ==
    (last.via = "call_tool" /\ last.name \notin ToolNames)
    => /\ last.calls = <<>>
       /\ World = last.pre
       /\ last.ret = "Unknown tool: " \o last.name

\* a name that is no tool, called while the session is running
C8_Witness ==
    /\ last.via = "call_tool"
    /\ last.name \notin ToolNames
    /\ Ready(last.pre)

\* C9: a free-text command that parses to unknown, or to a draw with an
\* error, calls no method of the controller and leaves the drawing as it
\* was; the reply says the command was not understood, or reports the parse
\* error.
C9_ParseFailureIsInert ==
    (CommandCalled /\ ParseFailed)
    => /\ last.calls = <<>>
       /\ World = last.pre
       /\ last.ret = IF last.parsed.type = "unknown"
                     THEN "Could not understand command: "
                             \o last.args.command[2]
                     ELSE "Error parsing command: " \o last.parsed.error

\* a draw command with an error, sent while the session is running
C9_Witness ==
    /\ CommandCalled
    /\ last.parsed.type = "draw"
    /\ "error" \in DOMAIN last.parsed
    /\ Ready(last.pre)

\* C10: a free-text draw that names a layer L and a colour c, on a running
\* session and with no engine fault, adds an entity on layer L with colour
\* c, and L, not c, is the layer that exists afterwards.
C10_LayerAndColor ==
    (CommandCalled /\ ~ParseFailed /\ last.parsed.type = "draw"
       /\ ~IsNone(last.parsed.layer) /\ ~IsNone(last.parsed.color)
       /\ Ready(last.pre) /\ last.fault = "none")
    => /\ Len(entities) = Len(last.pre.entities) + 1
       /\ entities[Len(entities)].layer = last.parsed.layer
       /\ entities[Len(entities)].color = last.parsed.color
       /\ last.parsed.layer \in LayerNames(World)
       /\ last.parsed.color \notin LayerNames(World)

-----------------------------------------------------------------------------
(* Properties of colours and layers *)

\* C11: in every reachable state the colour of every entity is unset or an
\* integer colour index: a colour name of a request, structured or
\* free-text, is resolved to its index before the backend applies it.
C11_ColorIsIndex ==
    \A i \in DOMAIN entities :
        IsNone(entities[i].color) \/ entities[i].color[1] = "int"

\* a create_layer call on a running session that the engine does not fail
LayerCreated ==
    /\ last.via = "api"
    /\ last.name = "create_layer"
    /\ is_running(last.pre) = Bool(TRUE)
    /\ last.fault = "none"

\* C12: layer creation is idempotent on a running session: the layer table
\* never holds two layers of one name, every create_layer(n) the engine does
\* not fail returns true and leaves a layer n, and create_layer(n) for a
\* layer that exists leaves the layer table unchanged.
C12_LayerIdempotent ==
    /\ \A i, j \in DOMAIN layers : layers[i].name = layers[j].name => i = j
    /\ LayerCreated
       => /\ last.ret = Bool(TRUE)
          /\ Args(last.args).layer_name \in LayerNames(World)
          /\ Args(last.args).layer_name \in LayerNames(last.pre)
             => layers = last.pre.layers

\* create_layer for a layer that exists already
C12_Witness ==
    /\ LayerCreated
    /\ Args(last.args).layer_name \in LayerNames(last.pre)
    /\ last.ret = Bool(TRUE)

-----------------------------------------------------------------------------
(* Properties of lineweights *)

\* C19: validate_lineweight returns its argument when the argument is in the
\* list of valid lineweights, 0 when it is any other integer and None for
\* None; validating its result again changes nothing; and in every
\* reachable state the lineweight of every entity is unset or in the list.
C19_LineweightValid ==
    /\ (last.via = "api" /\ last.name = "validate_lineweight")
       => /\ IsNone(last.args.pos[1]) => IsNone(last.ret)
          /\ InLineweights(last.args.pos[1]) => last.ret = last.args.pos[1]
          /\ (last.args.pos[1][1] = "int"
                /\ last.args.pos[1][2] \notin valid_lineweights)
             => last.ret = PyInt(0)
          /\ validate_lineweight(last.ret) = last.ret
    /\ \A i \in DOMAIN entities :
          \/ IsNone(entities[i].lineweight)
          \/ InLineweights(entities[i].lineweight)

\* a lineweight that is not in the list was asked about, and an entity drawn
\* with such a lineweight is in the model space
C19_Witness ==
    /\ last.via = "api"
    /\ last.name = "validate_lineweight"
    /\ last.args.pos[1] = PyInt(7)
    /\ last.ret = PyInt(0)
    /\ \E i \in DOMAIN entities : entities[i].lineweight = PyInt(0)

-----------------------------------------------------------------------------
(* Properties of the parser *)

\* the command of the input
Command == last.args[2]

Detected == last.via = "nlp" /\ last.name = "_detect_command_type"

Parsed == last.via = "nlp" /\ last.name = "parse_command"

ParsedDraw == Parsed /\ last.parsed.type = "draw"

\* one of the words occurs in the text
Holds(text, words) == \E k \in words : Contains(text, k)

C13_SaveWords == {"save", "export", "write"}

C13_Order == <<"line", "circle", "arc", "rectangle", "polyline", "text",
               "hatch", "dimension">>

\* the class of the lower-cased command ls is what C13 says
C13_Classified(ls, class) ==
    /\ class = "save" <=> Holds(ls, C13_SaveWords)
    /\ \A i \in DOMAIN C13_Order :
          class = C13_Order[i]
          <=> /\ ~Holds(ls, C13_SaveWords)
              /\ Holds(ls, shape_keywords[C13_Order[i]])
              /\ \A j \in 1..(i - 1) :
                    ~Holds(ls, shape_keywords[C13_Order[j]])
    /\ class = "unknown"
       <=> /\ ~Holds(ls, C13_SaveWords)
           /\ \A i \in DOMAIN C13_Order :
                 ~Holds(ls, shape_keywords[C13_Order[i]])

\* C13: the lower-cased command is classified save iff it holds one of save,
\* export, write, whatever shape keywords it holds; otherwise it is the first
\* shape, in the order line, circle, arc, rectangle, polyline, text, hatch,
\* dimension, one of whose keywords it holds; otherwise unknown.
C13_Classification ==
    Detected => C13_Classified(lower(Command), last.ret[2])

\* a command with a save keyword and the keyword of a shape
C13_Witness ==
    /\ Detected
    /\ last.ret = Str("save")
    /\ Contains(lower(Command), "circle")

\* the pairs a shape needs
RequiredPairs(shape) ==
    CASE shape \in {"circle", "arc", "text"} -> 1
      [] shape \in {"line", "rectangle", "polyline"} -> 2
      [] shape \in {"hatch", "dimension"} -> 3

\* the coordinates of a shape, taken from the pairs
FromPairs(shape, points) ==
    CASE shape = "line" -> [start_point |-> points[1], end_point |-> points[2]]
      [] shape \in {"circle", "arc"} -> [center |-> points[1]]
      [] shape = "rectangle" -> [corner1 |-> points[1], corner2 |-> points[2]]
      [] shape = "polyline" -> [points |-> PointList(points)]
      [] shape = "text" -> [position |-> points[1]]
      [] shape = "hatch" -> [outer_loop_points |-> PointList(points)]
      [] shape = "dimension" -> [point1 |-> points[1], point2 |-> points[2],
                                 text_position |-> points[3]]

C14_Checked(parsed, points) ==
    Len(points) >= RequiredPairs(parsed.shape)
    => \A k \in DOMAIN FromPairs(parsed.shape, points) \cap DOMAIN parsed :
          parsed[k] = FromPairs(parsed.shape, points)[k]

\* C14: for every shape, when the command holds as many coordinate pairs as
\* the shape needs, every coordinate of the result is taken from the pairs
\* and none from the flat sequence of numbers.
C14_PairsBeforeNumbers ==
    ParsedDraw => C14_Checked(last.parsed, _extract_points(Command))

C16_Checked(parsed, points, numbers) ==
    /\ parsed.type = "draw"
    /\ parsed.shape = "line"
    /\ IF Len(points) >= 2
       THEN /\ "error" \notin DOMAIN parsed
            /\ parsed.start_point = points[1]
            /\ parsed.end_point = points[2]
       ELSE IF Len(numbers) >= 4
       THEN /\ "error" \notin DOMAIN parsed
            /\ parsed.start_point = Tup(<<numbers[1], numbers[2]>>)
            /\ parsed.end_point = Tup(<<numbers[3], numbers[4]>>)
       ELSE /\ "error" \in DOMAIN parsed
            /\ parsed.error = "Insufficient coordinates for line"
            /\ DOMAIN parsed \cap {"start_point", "end_point"} = {}

\* C16: a command classified as line gives type draw and shape line; with two
\* coordinate pairs or more, start_point and end_point are the first and the
\* second pair; otherwise with four numbers or more they are (n0, n1) and
\* (n2, n3); otherwise the result has the error 'Insufficient coordinates
\* for line' and no points.
C16_Line ==
    (Parsed /\ _detect_command_type(lower(Command)) = "line")
    => C16_Checked(last.parsed, _extract_points(Command),
                   _extract_numbers(Command))

\* a line taken from the flat numbers, the command holding one pair only
C16_Witness ==
    /\ ParsedDraw
    /\ last.parsed.shape = "line"
    /\ Len(_extract_points(Command)) = 1
    /\ "start_point" \in DOMAIN last.parsed

\* radius is what the 'radius' keyword gave: None when the command has no
\* 'radius' followed by blanks and a number
C17_Checked(parsed, points, numbers, radius) ==
    /\ parsed.type = "draw"
    /\ parsed.shape = "circle"
    /\ IF Len(points) >= 1 /\ ~IsNone(radius)
       THEN /\ "error" \notin DOMAIN parsed
            /\ parsed.center = points[1]
            /\ parsed.radius = radius
       ELSE IF Len(numbers) >= 3
       THEN /\ "error" \notin DOMAIN parsed
            /\ parsed.center = IF Len(points) >= 1 THEN points[1]
                               ELSE Tup(<<numbers[1], numbers[2]>>)
            /\ parsed.radius = Num(numbers[3])
       ELSE /\ "error" \in DOMAIN parsed
            /\ DOMAIN parsed \cap {"center", "radius"} = {}

\* C17: a command classified as circle with a coordinate pair gives the first
\* pair as center and as radius the number that follows the 'radius'
\* keyword, else the third of the flat numbers, else an error; with no pair,
\* center and radius are the first three flat numbers, or the result is an
\* error when there are fewer than three.
C17_Circle ==
    (Parsed /\ _detect_command_type(lower(Command)) = "circle")
    => C17_Checked(last.parsed, _extract_points(Command),
                   _extract_numbers(Command), KeywordNumber(Command, "radius"))

\* a circle whose radius follows the keyword and is not the third number
C17_Witness ==
    /\ ParsedDraw
    /\ last.parsed.shape = "circle"
    /\ "radius" \in DOMAIN last.parsed
    /\ last.parsed.radius = KeywordNumber(Command, "radius")
    /\ last.parsed.radius # Num(_extract_numbers(Command)[3])

C18_Palette == {"red", "yellow", "green", "cyan", "blue", "magenta", "white",
                "black", "gray"}

\* color is absent iff none of the names occurs, and else one that occurs
C18_Checked(color, occurring) ==
    /\ IsNone(color) <=> occurring = {}
    /\ ~IsNone(color) => color[1] = "str" /\ color[2] \in occurring
    /\ \A k \in occurring : occurring = {k} => color = Str(k)

\* C18: the colour of a draw command is absent iff no name of the palette
\* {red, yellow, green, cyan, blue, magenta, white, black, gray} occurs in
\* the lower-cased command, and otherwise it is a name of the palette that
\* occurs in it; when exactly one occurs, it is that name.
C18_Color ==
    ParsedDraw
    => C18_Checked(last.parsed.color,
                   {k \in C18_Palette : Contains(lower(Command), k)})

\* C18 as amended: the same with grey as a tenth name of the palette.
C18_ColorWithGrey ==
    ParsedDraw
    => C18_Checked(last.parsed.color,
                   {k \in C18_Palette \cup {"grey"} :
                       Contains(lower(Command), k)})

\* a draw command whose colour is typed in capitals and spelt grey
C18_Witness ==
    /\ ParsedDraw
    /\ last.parsed.color = Str("grey")
    /\ ~Contains(Command, "grey")

-----------------------------------------------------------------------------
(* Properties of points *)

Normalized == last.via = "controller" /\ last.name = "_normalize_point"

\* C20: _normalize_point gives (x, y, 0) for a point of two coordinates and
\* the point itself for a point of three, and normalizing its result again
\* changes nothing.
C20_NormalizePoint ==
    Normalized
    => /\ Len(last.args[2]) = 2
          => last.ret[2] = <<last.args[2][1], last.args[2][2], 0>>
       /\ Len(last.args[2]) = 3 => last.ret[2] = last.args[2]
       /\ _normalize_point(last.ret[2]) = last.ret[2]

\* a point of two coordinates that are not zero, normalized
C20_Witness ==
    /\ Normalized
    /\ Len(last.args[2]) = 2
    /\ last.args[2][1] # 0
    /\ Len(last.ret[2]) = 3

-----------------------------------------------------------------------------
(* Properties of rectangles and hatches *)

\* the kinds of entity the model space holds
Kinds == {"line", "circle", "arc", "polyline", "text", "hatch", "dimension"}

\* a call of the operation op, made on a Ready session, that no engine call
\* failed
Done(op) ==
    /\ last.via = "api"
    /\ last.name = op
    /\ last.pre.session = "Ready"
    /\ last.fault = "none"

\* the vertices (x1,y1), (x2,y1), (x2,y2), (x1,y2) at z, for the corners
\* c1 and c2 as the caller gave them
C21_Vertices(c1, c2, z) ==
    << <<c1[1], c1[2], z>>, <<c2[1], c1[2], z>>,
       <<c2[1], c2[2], z>>, <<c1[1], c2[2], z>> >>

\* C21: draw_rectangle(corner1, corner2) on a Ready session adds exactly one
\* entity, a closed polyline whose vertices are (x1,y1), (x2,y1), (x2,y2),
\* (x1,y2) in this order, optionally followed by the first again, all at
\* corner1's z; and no entity is ever of a kind of its own for rectangles.
C21_Rectangle ==
    /\ \A i \in DOMAIN entities : entities[i].kind \in Kinds
    /\ Done("draw_rectangle")
       => /\ IsObj(last.ret)
          /\ Len(entities) = Len(last.pre.entities) + 1
          /\ SubSeq(entities, 1, Len(last.pre.entities)) = last.pre.entities
          /\ entities[Len(entities)].kind = "polyline"
          /\ entities[Len(entities)].closed
          /\ \/ entities[Len(entities)].geom =
                   C21_Vertices(last.args.pos[1][2], last.args.pos[2][2],
                                last.args.pos[1][2][3])
             \/ entities[Len(entities)].geom =
                   Append(C21_Vertices(last.args.pos[1][2],
                                       last.args.pos[2][2],
                                       last.args.pos[1][2][3]),
                          last.args.pos[1][2])

\* a rectangle drawn between corners that differ in x, y and z
C21_Witness ==
    /\ Done("draw_rectangle")
    /\ last.args.pos[1][2][1] # last.args.pos[2][2][1]
    /\ last.args.pos[1][2][2] # last.args.pos[2][2][2]
    /\ last.args.pos[1][2][3] # last.args.pos[2][2][3]
    /\ Len(entities) = 1
    /\ entities[1].kind = "polyline"

\* a draw_hatch call with at least 3 boundary points
HatchDone ==
    /\ Done("draw_hatch")
    /\ Len(last.args.pos[1][2]) >= 3

\* C22: for draw_hatch with at least 3 boundary points on a Ready session,
\* in both backends the closed boundary polyline is created first, the hatch
\* entity is created after it and refers to that boundary, and the pattern
\* is evaluated before draw_hatch returns the handle of the hatch.  The order
\* of creation is the order of the model space.
C22_HatchOrder ==
    HatchDone
    => /\ Len(entities) = Len(last.pre.entities) + 2
       /\ entities[Len(entities) - 1].kind = "polyline"
       /\ entities[Len(entities) - 1].closed
       /\ entities[Len(entities)].kind = "hatch"
       /\ entities[Len(entities)].geom = <<Obj(Len(entities) - 1)>>
       /\ entities[Len(entities)].extra[3] = Bool(TRUE)
       /\ last.ret = Obj(Len(entities))

\* the same, of the win32com backend alone
C22_HatchOrderWin32 == ~use_ezdxf => C22_HatchOrder

-----------------------------------------------------------------------------
(* Properties of the two backends *)

\* what a drawing is, whatever the backend: the entities with their kind,
\* vertices, closed flag, layer, color and lineweight, and the names of the
\* layers
Abstract(e) ==
    [kind |-> e.kind, geom |-> e.geom, closed |-> e.closed,
     layer |-> e.layer, color |-> e.color, lineweight |-> e.lineweight]

Drawing(w) ==
    [entities |-> [i \in DOMAIN w.entities |-> Abstract(w.entities[i])],
     layers |-> LayerNames(w)]

\* the call made last, made on the other backend from the same state
OtherBackend == Invoke(last.pre, ~use_ezdxf, last.args, "none")

\* C23: with no fault of the engine, a create_layer, draw or save call given
\* the same arguments in the same state returns the same success or failure
\* on the ezdxf and on the win32com backend and leaves equivalent drawings:
\* the same entities (kind, vertices, closed flag, layer, color, lineweight)
\* and the same layers.
C23_BackendParity ==
    (last.via = "api" /\ last.name \in WriteOps /\ last.fault = "none"
       /\ is_running(last.pre) = Bool(TRUE))
    => /\ Rejected(last.ret) = Rejected(OtherBackend.ret)
       /\ Drawing(World) = Drawing(OtherBackend.w)

-----------------------------------------------------------------------------
(* Properties of saving *)

\* a free-text command classified as save, dispatched on a running backend
SaveCommand ==
    /\ last.via = "call_tool"
    /\ last.name = "process_command"
    /\ "type" \in DOMAIN last.parsed
    /\ last.parsed.type = "save"
    /\ Ready(last.pre)

\* the path save_drawing is to write for the parsed command: the file name
\* extracted, or the default directory joined with the default file name
C24_Path(parsed) ==
    IF "filename" \in DOMAIN parsed THEN parsed.filename[2]
    ELSE "./output/cad_drawing.dwg"

\* the directory a path lies in: what precedes its last "/", "." without one
C24_Parent(path) ==
    IF \A i \in 1..Len(path) : SubSeq(path, i, i) # "/" THEN "."
    ELSE CHOOSE d \in {SubSeq(path, 1, i - 1) : i \in 2..Len(path)} :
            /\ SubSeq(path, Len(d) + 1, Len(d) + 1) = "/"
            /\ \A j \in (Len(d) + 2)..Len(path) : SubSeq(path, j, j) # "/"

\* C24: a free-text command classified as save, dispatched on a running
\* backend, makes exactly one save_drawing call whose path is the file name
\* extracted from the text, or no path when none was extracted; the call
\* writes that path, or the default directory joined with the default file
\* name, creates the directory the path lies in, and leaves entities and
\* layers unchanged.
C24_Save ==
    SaveCommand
    => /\ Len(last.calls) = 1
       /\ last.calls[1].call.op = "save_drawing"
       /\ ~BindError("save_drawing", last.calls[1].call.pos,
                     last.calls[1].call.kw)
       /\ Args(last.calls[1].call).file_path =
             (IF "filename" \in DOMAIN last.parsed
              THEN last.parsed.filename ELSE None)
       /\ last.calls[1].ret = Bool(TRUE)
       /\ files = last.pre.files \cup {C24_Path(last.parsed)}
       /\ dirs = last.pre.dirs \cup {C24_Parent(C24_Path(last.parsed))}
       /\ entities = last.pre.entities
       /\ layers = last.pre.layers

\* a save command that names a file in a directory, written next to a
\* drawing saved to the default path before
C24_Witness ==
    /\ SaveCommand
    /\ last.args.command = Str("Save to plans/Floor.dwg")
    /\ last.parsed.filename = Str("plans/Floor.dwg")
    /\ files = {"./output/cad_drawing.dwg", "plans/Floor.dwg"}
    /\ dirs = {"./output", "plans"}

-----------------------------------------------------------------------------
(* Properties of the session *)

\* a start_cad call of the win32com backend
Win32Started == last.via = "api" /\ last.name = "start_cad" /\ ~use_ezdxf

\* the positions of the engine call name among calls
Positions(calls, name) == {i \in DOMAIN calls : calls[i] = name}

\* C25: within one start_cad call of the win32com backend a fresh instance
\* of the application is launched only after attaching to a running one has
\* failed, and at most once; when attach and launch both fail start_cad
\* returns false; and start_cad returns true only with the application
\* handle and the document handle both set.
C25_SessionStart ==
    Win32Started
    => /\ Cardinality(Positions(Win32StartCalls(last.fault), "Dispatch")) <= 1
       /\ \A i \in Positions(Win32StartCalls(last.fault), "Dispatch") :
             /\ ~last.fault.attach
             /\ \E j \in Positions(Win32StartCalls(last.fault),
                                   "GetActiveObject") : j < i
       /\ (~last.fault.attach /\ last.fault.launch # "ok")
          => last.ret = Bool(FALSE)
       /\ last.ret = Bool(TRUE) => (app = "app" /\ doc = "doc")
       /\ last.ret \in {Bool(TRUE), Bool(FALSE)}

\* a start that found no running instance, launched one and returned true
C25_Witness ==
    /\ Win32Started
    /\ ~last.fault.attach
    /\ last.fault.launch = "ok"
    /\ "Dispatch" \in Range(Win32StartCalls(last.fault))
    /\ last.ret = Bool(TRUE)

-----------------------------------------------------------------------------
(* Properties of the layers of entities *)

\* C26: in every reachable state of a Ready session each entity that carries
\* a layer name refers to a layer of the layer table: a draw call given
\* layer L puts the entity on L only if L exists or the call created it,
\* also when the create_layer step of the call fails.
C26_LayerExists ==
    session = "Ready"
    => \A i \in DOMAIN entities :
          IsNone(entities[i].layer) \/ entities[i].layer \in LayerNames(World)

-----------------------------------------------------------------------------
(* Properties of the shape keywords *)

\* C27: every shape keyword is reachable: for each of the eight shapes and
\* each keyword of its keyword set, the command that consists of the keyword
\* is classified as that shape; so the command "polyline" is classified as
\* polyline.
C27_KeywordsReachable ==
    Detected
    => \A i \in DOMAIN ShapeOrder :
          Command \in shape_keywords[ShapeOrder[i]]
          => last.ret = Str(ShapeOrder[i])

\* the same, but for the keyword "polyline"
C27_AllButPolyline ==
    (Detected /\ Command # "polyline")
    => \A i \in DOMAIN ShapeOrder :
          Command \in shape_keywords[ShapeOrder[i]]
          => last.ret = Str(ShapeOrder[i])

-----------------------------------------------------------------------------
(* Properties of failed draws *)

\* C28: a draw operation that returns null leaves the drawing as it was:
\* for every draw operation on a Ready session and every engine call that
\* may fail in it, when the call returns null the entities and the layers
\* are exactly those before the call.
C28_FailedDrawInert ==
    (last.via = "api" /\ last.name \in DrawOps
       /\ last.pre.session = "Ready" /\ IsNone(last.ret))
    => /\ entities = last.pre.entities
       /\ layers = last.pre.layers

-----------------------------------------------------------------------------
(* Properties of is_running *)

\* C29: is_running() agrees with the outcome of the session start: after a
\* start_cad call is_running() is true exactly when the call returned true,
\* so whenever start_cad returns false the backend is left not running and
\* the next draw is rejected.
C29_RunningAgrees ==
    (last.via = "api" /\ last.name = "start_cad")
    => /\ is_running(World) = last.ret
       /\ last.ret = Bool(FALSE)
          => \A c \in DrawLineCalls :
                Rejected(draw_line(World, use_ezdxf, Args(c), "none").ret)

\* the same, of the start_cad calls made while no session is running
C29_FirstStart ==
    (last.via = "api" /\ last.name = "start_cad"
       /\ is_running(last.pre) = Bool(FALSE))
    => is_running(World) = last.ret

-----------------------------------------------------------------------------
(* Properties of the document of a session *)

\* the sequence before is kept, in place, at the head of the sequence after
Kept(before, after) ==
    /\ Len(before) <= Len(after)
    /\ \A i \in DOMAIN before : after[i] = before[i]

\* C30: once a session is Ready its document is reused: a start_cad,
\* create_layer, draw or save call made before close removes no entity and
\* no layer that is in the document, so that a later save_drawing writes
\* every entity whose draw call returned a handle.
C30_DocumentReused ==
    (last.via = "api" /\ last.pre.session = "Ready"
       /\ last.name \in WriteOps \cup {"start_cad"})
    => /\ Kept(last.pre.entities, entities)
       /\ Kept(last.pre.layers, layers)

\* the same, of the create_layer, draw and save calls alone
C30_ReusedBetweenStarts ==
    (last.via = "api" /\ last.pre.session = "Ready" /\ last.name \in WriteOps)
    => /\ Kept(last.pre.entities, entities)
       /\ Kept(last.pre.layers, layers)

====
